---- MODULE Spec2Model ----
(***************************************************************************)
(* Model of the map-chat tool pipeline of Kappro/NTHA:                     *)
(*   - the Place Resolver (runNominatimSearch) with its in-memory TTL      *)
(*     cache (services/nominatim.ts),                                      *)
(*   - the chained Foursquare resolver (foursquareByPlaceTool),            *)
(*   - the chained TripAdvisor resolver with its fallback geocoder and     *)
(*     address cache (lib/tools/tripadvisor.ts).                           *)
(* Time is Date.now() in milliseconds.  Coordinates are integers in units  *)
(* of 1e-5 degree, radii in units of 0.01 km; an optional value is the     *)
(* empty sequence (undefined) or a one-element sequence.                   *)
(* The variables: now is the clock, CACHE and geocodeCache the two maps,   *)
(* env the environment variables, calls the invocations made so far, seq   *)
(* the number of cacheSet calls made so far; fnIn and fnOut hold the       *)
(* arguments and the value of a pure function under study.                 *)
(* The chat page (components/Chat.tsx): messages is the message list of   *)
(* the chat, processedIds the set of tool call ids already processed,      *)
(* dispatched the window events dispatched so far, mapInit the position of *)
(* the map's initialisation effect, handled the events the map's          *)
(* listeners have handled.                                                 *)
(***************************************************************************)
EXTENDS Integers, Sequences, FiniteSets, TLC

VARIABLES now, CACHE, geocodeCache, env, calls, seq, fnIn, fnOut,
          messages, processedIds, dispatched, mapInit, handled

chatVars == <<messages, processedIds, dispatched, mapInit, handled>>

vars == <<now, CACHE, geocodeCache, env, calls, seq, fnIn, fnOut, chatVars>>

(***************************************************************************)
(* Bounds of the model.                                                    *)
(***************************************************************************)
MaxCalls == 1
MaxTicks == 2

(***************************************************************************)
(* Program constants.                                                      *)
(***************************************************************************)
CACHE_TTL_MS == 10 * 60 * 1000
FAILURE_TTL_MS == 2 * 60 * 1000
CACHE_MAX == 300
TickMs == 2 * 60 * 1000

(***************************************************************************)
(* JavaScript helpers.                                                     *)
(***************************************************************************)
Abs(n) == IF n < 0 THEN -n ELSE n

RECURSIVE TrimLeft(_)
TrimLeft(s) == IF s # <<>> /\ Head(s) = " " THEN TrimLeft(Tail(s)) ELSE s

RECURSIVE TrimRight(_)
TrimRight(s) ==
    IF s # <<>> /\ s[Len(s)] = " " THEN TrimRight(SubSeq(s, 1, Len(s) - 1)) ELSE s

\* String.prototype.trim
trim(s) == TrimRight(TrimLeft(s))

LowerChar(c) ==
    CASE c = "A" -> "a"
      [] c = "B" -> "b"
      [] c = "C" -> "c"
      [] c = "D" -> "d"
      [] OTHER -> c

\* String.prototype.toLowerCase
toLowerCase(s) == [i \in 1..Len(s) |-> LowerChar(s[i])]

\* Number(x.toFixed(4)) for x in units of 1e-5: the result is in units of 1e-4,
\* rounded half away from zero.
toFixed4(x) == IF x < 0 THEN -((Abs(x) + 5) \div 10) ELSE (x + 5) \div 10

\* Math.round(r * 10) / 10 for r in units of 0.01: the result is in units of 0.1,
\* Math.round rounds half towards +infinity.
roundTenth(r) == (r + 5) \div 10

\* a ?? b on an optional value
Coalesce(opt, dflt) == IF opt = <<>> THEN dflt ELSE opt[1]

(***************************************************************************)
(* services/nominatim.ts: cache key.                                       *)
(***************************************************************************)
cacheKeyNoLang(args) ==
    [ q     |-> toLowerCase(trim(args.query)),
      limit |-> Coalesce(args.limit, 5),
      cc    |-> Coalesce(args.countrycodes, ""),
      poly  |-> (args.polygon # <<FALSE>>),
      lang  |-> "",
      near  |-> IF args.near # <<>>
                THEN << [ lat |-> toFixed4(args.near[1].lat),
                          lng |-> toFixed4(args.near[1].lng),
                          r   |-> IF args.near[1].radiusKm # <<>> /\ args.near[1].radiusKm # <<0>>
                                  THEN roundTenth(args.near[1].radiusKm[1])
                                  ELSE 20 ] >>
                ELSE <<>> ]

\* cacheKey: the JSON text of the canonicalised key object, as the record of its
\* fields in their fixed order (near: null is the empty sequence).
cacheKey(args) ==
    [ q     |-> toLowerCase(trim(args.query)),
      limit |-> Coalesce(args.limit, 5),
      cc    |-> Coalesce(args.countrycodes, ""),
      poly  |-> (args.polygon # <<FALSE>>),
      lang  |-> Coalesce(args.language, ""),
      near  |-> IF args.near # <<>>
                THEN << [ lat |-> toFixed4(args.near[1].lat),
                          lng |-> toFixed4(args.near[1].lng),
                          r   |-> IF args.near[1].radiusKm # <<>> /\ args.near[1].radiusKm # <<0>>
                                  THEN roundTenth(args.near[1].radiusKm[1])
                                  ELSE 20 ] >>
                ELSE <<>> ]

(***************************************************************************)
(* services/nominatim.ts: the TTL cache.  A Map keeps its keys in          *)
(* insertion order: the cache is the sequence of its entries in that       *)
(* order.  The fields at, ins and wid of an entry are history: the time of *)
(* the cacheSet call that wrote the value, the number of the cacheSet call *)
(* that inserted the key, and the invocation that wrote the value.         *)
(***************************************************************************)
IndexOf(C, k) ==
    IF \E i \in 1..Len(C) : C[i].k = k
    THEN CHOOSE i \in 1..Len(C) : C[i].k = k
    ELSE 0

Has(C, k) == IndexOf(C, k) # 0

\* Map.prototype.delete
MapDelete(C, k) ==
    LET i == IndexOf(C, k)
    IN  IF i = 0 THEN C ELSE SubSeq(C, 1, i - 1) \o SubSeq(C, i + 1, Len(C))

\* Map.prototype.set: a present key keeps its position, a new key goes last.
MapSet(C, e) ==
    LET i == IndexOf(C, e.k)
    IN  IF i = 0 THEN Append(C, e)
        ELSE [C EXCEPT ![i] = [e EXCEPT !.ins = C[i].ins]]

\* cacheGet with an entry expiring as soon as its expiry time is reached.
cacheGetEarly(C, k, t) ==
    LET i == IndexOf(C, k)
    IN  IF i = 0 THEN [cache |-> C, value |-> <<>>]
        ELSE IF t >= C[i].expires THEN [cache |-> MapDelete(C, k), value |-> <<>>]
        ELSE [cache |-> C, value |-> <<C[i].value>>]

\* cacheGet reporting a miss for an expired entry but leaving it in the map.
cacheGetKeepExpired(C, k, t) ==
    LET i == IndexOf(C, k)
    IN  IF i = 0 THEN [cache |-> C, value |-> <<>>]
        ELSE IF t > C[i].expires THEN [cache |-> C, value |-> <<>>]
        ELSE [cache |-> C, value |-> <<C[i].value>>]

\* cacheGet with a sliding expiry: a hit renews the entry for another ttl.
cacheGetSliding(C, k, t) ==
    LET i == IndexOf(C, k)
    IN  IF i = 0 THEN [cache |-> C, value |-> <<>>]
        ELSE IF t > C[i].expires THEN [cache |-> MapDelete(C, k), value |-> <<>>]
        ELSE [cache |-> [C EXCEPT ![i].expires = t + CACHE_TTL_MS],
              value |-> <<C[i].value>>]

\* cacheGet without the expiry check.
cacheGetNoExpiry(C, k, t) ==
    LET i == IndexOf(C, k)
    IN  IF i = 0 THEN [cache |-> C, value |-> <<>>]
        ELSE [cache |-> C, value |-> <<C[i].value>>]

\* cacheGet: the cache after the lookup (an expired entry is deleted) and the
\* optional value found.
cacheGet(C, k, t) ==
    LET i == IndexOf(C, k)
    IN  IF i = 0 THEN [cache |-> C, value |-> <<>>]
        ELSE IF t > C[i].expires THEN [cache |-> MapDelete(C, k), value |-> <<>>]
        ELSE [cache |-> C, value |-> <<C[i].value>>]

\* cacheSet without the eviction.
cacheSetMaxNoEvict(C, max, k, v, ttl, t, wid, ins) ==
    MapSet(C, [ k |-> k, value |-> v, expires |-> t + ttl,
                at |-> t, ins |-> ins, wid |-> wid ])

\* cacheSet that leaves a key alone when the map already has it.
cacheSetMaxKeepFirst(C, max, k, v, ttl, t, wid, ins) ==
    IF Has(C, k) THEN C
    ELSE MapSet(IF Len(C) >= max THEN Tail(C) ELSE C,
                [ k |-> k, value |-> v, expires |-> t + ttl,
                  at |-> t, ins |-> ins, wid |-> wid ])

\* cacheSet with capacity max: when the map is full its first key is deleted,
\* then the entry is set.
cacheSetMax(C, max, k, v, ttl, t, wid, ins) ==
    LET C1 == IF Len(C) >= max THEN Tail(C) ELSE C
    IN  MapSet(C1, [ k |-> k, value |-> v, expires |-> t + ttl,
                     at |-> t, ins |-> ins, wid |-> wid ])

cacheSet(C, k, v, ttl, t, wid, ins) == cacheSetMax(C, CACHE_MAX, k, v, ttl, t, wid, ins)

(***************************************************************************)
(* Provider rows and results.  A message is the sequence of its pieces.    *)
(***************************************************************************)
GeoPoint == [type |-> "Point", coordinates |-> <<2, 1>>]

GeoPolygon ==
    [type |-> "Polygon", coordinates |-> << << <<0, 0>>, <<6, 0>>, <<0, 6>> >> >>]

GeoOther == [type |-> "GeometryCollection", coordinates |-> <<>>]

NominatimRow(name, geojson) ==
    [ display_name |-> name, category |-> "place", type |-> "suburb",
      importance |-> 1, osm_type |-> "relation", osm_id |-> 7,
      lon |-> 2, lat |-> 1, geojson |-> geojson ]

\* toFeatureCollection with the fallback Point written as [lat, lon].
toFeatureCollectionLatLon(items) ==
    [ type |-> "FeatureCollection",
      features |->
        [ i \in 1..Len(items) |->
            [ type |-> "Feature",
              properties |->
                [ display_name |-> items[i].display_name,
                  category |-> items[i].category,
                  type |-> items[i].type,
                  importance |-> items[i].importance,
                  osm_type |-> items[i].osm_type,
                  osm_id |-> items[i].osm_id ],
              geometry |->
                IF items[i].geojson # <<>> THEN items[i].geojson[1]
                ELSE [type |-> "Point",
                      coordinates |-> <<items[i].lat, items[i].lon>>] ] ] ]

\* toFeatureCollection: one feature per row, geometry it.geojson ?? Point(lon, lat).
toFeatureCollection(items) ==
    [ type |-> "FeatureCollection",
      features |->
        [ i \in 1..Len(items) |->
            [ type |-> "Feature",
              properties |->
                [ display_name |-> items[i].display_name,
                  category |-> items[i].category,
                  type |-> items[i].type,
                  importance |-> items[i].importance,
                  osm_type |-> items[i].osm_type,
                  osm_id |-> items[i].osm_id ],
              geometry |->
                IF items[i].geojson # <<>> THEN items[i].geojson[1]
                ELSE [type |-> "Point",
                      coordinates |-> <<items[i].lon, items[i].lat>>] ] ] ]

Success(fc, source) == [ok |-> TRUE, data |-> fc, source |-> source]

Failure(error) == [ok |-> FALSE, error |-> error, status |-> <<>>]

FailureStatus(error, status) == [ok |-> FALSE, error |-> error, status |-> <<status>>]

QueryTooShort == Failure(<<"Query too short">>)

(***************************************************************************)
(* What the geocoding provider can answer.                                 *)
(***************************************************************************)
BadStatuses == {503}

\* fetch: a transport error (0), a non-success status, or 200.
FetchOutcomes == {0, 200} \cup BadStatuses

RowSets ==
    { <<>>,
      <<NominatimRow("g", <<GeoPolygon>>)>> }

(***************************************************************************)
(* Inputs of the tools.                                                    *)
(***************************************************************************)
Args(query, limit, polygon) ==
    [ query |-> query, limit |-> limit, countrycodes |-> <<>>,
      polygon |-> polygon, language |-> <<>>, near |-> <<>> ]

\* nominatimSearchTool inputs after the schema has filled in its defaults.
PlaceArgSet ==
    { Args(<<"A", "b">>, <<1>>, <<TRUE>>),
      Args(<<" ", "a">>, <<5>>, <<FALSE>>) }

Min(a, b) == IF a < b THEN a ELSE b
Max(a, b) == IF a > b THEN a ELSE b

(***************************************************************************)
(* runNominatimSearch, up to its first suspension: the cache lookup, the   *)
(* validation of the query, and the request it builds.                     *)
(***************************************************************************)
WidOf(C, k) == IF Has(C, k) THEN C[IndexOf(C, k)].wid ELSE 0

\* CACHE.get(k) as an optional entry
EntryOf(C, k) == IF Has(C, k) THEN <<C[IndexOf(C, k)]>> ELSE <<>>

ExpiresOf(C, k) == IF Has(C, k) THEN C[IndexOf(C, k)].expires ELSE 0

\* The request with the caller's limit passed through as it is.
NominatimRequestNoClamp(args) ==
    [ q |-> args.query,
      limit |-> Coalesce(args.limit, 5),
      polygon_geojson |-> Coalesce(args.polygon, TRUE),
      countrycodes |-> Coalesce(args.countrycodes, ""),
      language |-> Coalesce(args.language, "") ]

NominatimRequest(args) ==
    [ q |-> args.query,
      limit |-> Min(Max(Coalesce(args.limit, 5), 1), 10),
      polygon_geojson |-> Coalesce(args.polygon, TRUE),
      countrycodes |-> Coalesce(args.countrycodes, ""),
      language |-> Coalesce(args.language, "") ]

\* runNominatimSearch marking the key as in flight before its request.
runNominatimSearchStartInFlight(args, C, t, wid, ins) ==
    LET key == cacheKey(args)
        got == cacheGet(C, key, t)
    IN  IF got.value # <<>>
        THEN [ cache |-> got.cache, result |-> got.value, req |-> <<>>,
               seen |-> WidOf(C, key),
               wid |-> WidOf(C, key), expires |-> ExpiresOf(C, key) ]
        ELSE IF args.query = <<>> \/ Len(trim(args.query)) < 2
        THEN [ cache |-> cacheSet(got.cache, key, QueryTooShort, CACHE_TTL_MS, t, wid, ins),
               result |-> <<QueryTooShort>>, req |-> <<>>,
               seen |-> WidOf(C, key),
               wid |-> wid, expires |-> t + CACHE_TTL_MS ]
        ELSE [ cache |-> cacheSet(got.cache, key, Failure(<<"pending">>), FAILURE_TTL_MS,
                                  t, wid, ins),
               result |-> <<>>, req |-> <<NominatimRequest(args)>>,
               seen |-> WidOf(C, key),
               wid |-> 0, expires |-> 0 ]

\* runNominatimSearch returning the validation failure without caching it.
runNominatimSearchStartNoCache(args, C, t, wid, ins) ==
    LET key == cacheKey(args)
        got == cacheGet(C, key, t)
    IN  IF got.value # <<>>
        THEN [ cache |-> got.cache, result |-> got.value, req |-> <<>>,
               seen |-> WidOf(C, key),
               wid |-> WidOf(C, key), expires |-> ExpiresOf(C, key) ]
        ELSE IF args.query = <<>> \/ Len(trim(args.query)) < 2
        THEN [ cache |-> got.cache, result |-> <<QueryTooShort>>, req |-> <<>>,
               seen |-> WidOf(C, key), wid |-> 0, expires |-> 0 ]
        ELSE [ cache |-> got.cache, result |-> <<>>, req |-> <<NominatimRequest(args)>>,
               seen |-> WidOf(C, key),
               wid |-> 0, expires |-> 0 ]

runNominatimSearchStart(args, C, t, wid, ins) ==
    LET key == cacheKey(args)
        got == cacheGet(C, key, t)
    IN  IF got.value # <<>>
        THEN [ cache |-> got.cache, result |-> got.value, req |-> <<>>,
               seen |-> WidOf(C, key),
               wid |-> WidOf(C, key), expires |-> ExpiresOf(C, key) ]
        ELSE IF args.query = <<>> \/ Len(trim(args.query)) < 2
        THEN [ cache |-> cacheSet(got.cache, key, QueryTooShort, CACHE_TTL_MS, t, wid, ins),
               result |-> <<QueryTooShort>>, req |-> <<>>,
               seen |-> WidOf(C, key),
               wid |-> wid, expires |-> t + CACHE_TTL_MS ]
        ELSE [ cache |-> got.cache, result |-> <<>>, req |-> <<NominatimRequest(args)>>,
               seen |-> WidOf(C, key),
               wid |-> 0, expires |-> 0 ]

\* One TTL for every provider answer.
NominatimTtlLong(outcome) == CACHE_TTL_MS

\* The TTL runNominatimSearch caches a provider answer with.
\* The failure TTL for every provider answer.
NominatimTtlShort(outcome) == FAILURE_TTL_MS

NominatimTtl(outcome) == IF outcome = 200 THEN CACHE_TTL_MS ELSE FAILURE_TTL_MS

\* The failure runNominatimSearch builds for a fetch outcome that is not 200.
NominatimFailure(outcome) ==
    IF outcome = 0
    THEN Failure(<<"Network error: ", "ECONNRESET">>)
    ELSE FailureStatus(<<"Nominatim ", ToString(outcome)>>, outcome)

(***************************************************************************)
(* Invocations.  calls is the list of all invocations made so far, in the  *)
(* order they were issued, each with its position (pc), the state of its   *)
(* place lookup (npc) and its history: when it was issued, the             *)
(* invocations whose place lookup had returned by then (before), the       *)
(* writer of the entry its key had in the cache at that moment (seen, 0    *)
(* for none), the cache entry it was served from or wrote (wid, expires),  *)
(* when its place lookup returned (retAt, -1 before that) and the entry    *)
(* its key had in the cache at that moment (stored), what the provider     *)
(* answered (got), what it returned and which requests it sent.            *)
(***************************************************************************)
Returned(cs) == {i \in DOMAIN cs : cs[i].npc # "fetch"}

NewCall(kind, input, args, st, t, me, cs) ==
    [ kind |-> kind, pre |-> FALSE, input |-> input, args |-> args,
      key |-> cacheKey(args),
      pc |-> "nominatim",
      npc |-> IF st.result # <<>> THEN "done" ELSE "fetch",
      nomi |-> st.result,
      issuedAt |-> t, before |-> Returned(cs), seen |-> st.seen,
      retAt |-> IF st.result # <<>> THEN t ELSE 0 - 1,
      stored |-> IF st.result # <<>> THEN EntryOf(st.cache, cacheKey(args)) ELSE <<>>,
      result |-> <<>>,
      nreq |-> Len(st.req), req |-> st.req, got |-> <<>>,
      hit |-> (st.result # <<>> /\ st.wid # me),
      wid |-> st.wid, expires |-> st.expires,
      preq |-> 0, poiReq |-> <<>>, poiRows |-> <<>>, g |-> <<>>, c |-> <<>> ]

\* The Place Resolver tool returns what runNominatimSearch returned.
PlaceReturn(call) == [call EXCEPT !.pc = "done", !.result = call.nomi]

(***************************************************************************)
(* Exact arithmetic: a quotient of integers is the fraction in lowest      *)
(* terms with a positive denominator.                                      *)
(***************************************************************************)
RECURSIVE GCD(_, _)
GCD(a, b) == IF b = 0 THEN a ELSE GCD(b, a % b)

Rat(n, d) ==
    LET g == GCD(Abs(n), Abs(d))
        sgn == IF d < 0 THEN -1 ELSE 1
    IN  [n |-> (sgn * n) \div g, d |-> Abs(d) \div g]

RECURSIVE SumField(_, _)
SumField(terms, f) ==
    IF terms = <<>> THEN 0 ELSE terms[1][f] + SumField(Tail(terms), f)

\* The shoelace terms of a ring, last vertex wrapping to the first.
RingTerms(ring) ==
    LET n == Len(ring)
    IN  [ i \in 1..n |->
            LET p == ring[i]
                q == ring[(i % n) + 1]
                cross == p[1] * q[2] - q[1] * p[2]
            IN  [a |-> cross, cx |-> (p[1] + q[1]) * cross, cy |-> (p[2] + q[2]) * cross] ]

RingSums(ring) ==
    LET terms == RingTerms(ring)
    IN  [a |-> SumField(terms, "a"), cx |-> SumField(terms, "cx"), cy |-> SumField(terms, "cy")]

\* ring[0] ?? null, as an optional coordinate
FirstOf(ring) == IF ring = <<>> THEN <<>> ELSE << <<Rat(ring[1][1], 1), Rat(ring[1][2], 1)>> >>

\* poly[0] || []
OuterRing(poly) == IF poly = <<>> THEN <<>> ELSE poly[1]

\* The sums of the member polygons that have at least 3 vertices and a
\* non-zero signed area.
MultiTerms(polys) ==
    [ i \in 1..Len(polys) |->
        LET ring == OuterRing(polys[i])
            s == IF Len(ring) < 3 THEN [a |-> 0, cx |-> 0, cy |-> 0] ELSE RingSums(ring)
        IN  IF s.a # 0 THEN s ELSE [a |-> 0, cx |-> 0, cy |-> 0] ]

\* The coordinates of a Point in the order [lat, lng].
PointCoordinatesReversed(g) ==
    [k \in 1..Len(g.coordinates) |-> Rat(g.coordinates[Len(g.coordinates) + 1 - k], 1)]

\* g.coordinates of a Point, returned as it is: a coordinate, or the empty
\* array of an empty geometry.
PointCoordinates(g) == [k \in 1..Len(g.coordinates) |-> Rat(g.coordinates[k], 1)]

\* The value undefined, and const [a, b] = xs, which gives undefined for the
\* elements xs does not have.
Undefined == [undefined |-> TRUE]

Nth(xs, k) == IF k <= Len(xs) THEN xs[k] ELSE Undefined

(***************************************************************************)
(* tools/foursquare-by-place: centroid.  The result is optional (null is   *)
(* the empty sequence); a coordinate is <<lng, lat>>.                      *)
(***************************************************************************)
centroid(g) ==
    IF g = <<>> THEN <<>>
    ELSE IF g[1].type = "Point"
    THEN <<PointCoordinates(g[1])>>
    ELSE IF g[1].type = "Polygon"
    THEN LET ring == OuterRing(g[1].coordinates)
             s == RingSums(ring)
         IN  IF Len(ring) < 3 THEN FirstOf(ring)
             ELSE IF s.a = 0 THEN FirstOf(ring)
             ELSE << <<Rat(s.cx, 3 * s.a), Rat(s.cy, 3 * s.a)>> >>
    ELSE IF g[1].type = "MultiPolygon"
    THEN LET polys == g[1].coordinates
             terms == MultiTerms(polys)
             A == SumField(terms, "a")
         IN  IF A = 0
             THEN FirstOf(OuterRing(OuterRing(polys)))
             ELSE << <<Rat(SumField(terms, "cx"), 3 * A), Rat(SumField(terms, "cy"), 3 * A)>> >>
    \* lines and multipoints: coordinates.flat(2) is a list of numbers, so the
    \* reduce over [x, y] pairs throws and the catch returns null; a geometry
    \* without coordinates, or with none, returns null too.
    ELSE <<>>

(***************************************************************************)
(* services/foursquare: fsqSearch and fsqResultsToGeoJSON.                 *)
(***************************************************************************)
FsqRow(id, lat, lng, location, rating) ==
    [ fsq_id |-> id, name |-> "n", latitude |-> lat, longitude |-> lng,
      location |-> location, categories |-> <<[name |-> "Cafe"]>>,
      distance |-> 120, rating |-> rating ]

\* Lists of rows the POI provider answers with: none; four rows, of which
\* the third has no coordinates and the second no rating; one row with
\* coordinates and no location.
FsqRowSets ==
    { <<>>,
      <<FsqRow("f1", <<5>>, <<7>>, <<[address |-> "1 Main St"]>>, <<45>>),
        FsqRow("f3", <<3>>, <<4>>, <<[address |-> "2 High St"]>>, <<>>),
        FsqRow("f2", <<>>, <<>>, <<>>, <<>>),
        FsqRow("f5", <<6>>, <<8>>, <<[address |-> "3 Low St"]>>, <<30>>)>>,
      <<FsqRow("f4", <<1>>, <<2>>, <<>>, <<42>>)>> }

\* What the POI provider can answer: an error, or a list of rows.
FsqOutcomes ==
    {Failure(<<"Request failed">>)}
        \cup {[ok |-> TRUE, data |-> rows] : rows \in FsqRowSets}

\* The request with the caller's limit passed through as it is.
FsqRequestNoClamp(opts) ==
    [ ll |-> opts.ll, radius |-> opts.radiusMeters,
      limit |-> opts.limit, query |-> opts.query ]

\* The request fsqSearch sends (it sends none without the API key).
FsqRequest(opts) ==
    [ ll |-> opts.ll, radius |-> opts.radiusMeters,
      limit |-> Min(Max(opts.limit, 1), 50), query |-> opts.query ]

FsqMissingKey == Failure(<<"Missing FOURSQUARE_API_KEY">>)

\* typeof lat === "number" && typeof lng === "number"
HasCoordinates(r) == r.latitude # <<>> /\ r.longitude # <<>>

\* A null geometry, which no feature should have.
NullGeometry == [null |-> TRUE]

\* fsqResultsToGeoJSON emitting a feature with a null geometry for a row
\* without coordinates instead of skipping the row.
FsqFeaturesNullGeometry(results) ==
    [ k \in 1..Len(results) |->
        [ type |-> "Feature",
          properties |-> [ source |-> "foursquare", fsq_id |-> results[k].fsq_id,
                           name |-> results[k].name ],
          geometry |-> IF HasCoordinates(results[k])
                       THEN [ type |-> "Point",
                              coordinates |-> <<results[k].longitude[1],
                                                results[k].latitude[1]>> ]
                       ELSE NullGeometry ] ]

RECURSIVE FsqFeatures(_)
FsqFeatures(results) ==
    IF results = <<>> THEN <<>>
    ELSE LET r == results[1]
         IN  IF ~HasCoordinates(r) THEN FsqFeatures(Tail(results))
             ELSE << [ type |-> "Feature",
                       properties |->
                         [ source |-> "foursquare", fsq_id |-> r.fsq_id, name |-> r.name,
                           address |-> r.location[1].address,
                           categories |-> [i \in 1..Len(r.categories) |-> r.categories[i].name],
                           distance |-> r.distance ],
                       geometry |-> [ type |-> "Point",
                                      coordinates |-> <<r.longitude[1], r.latitude[1]>> ] ] >>
                  \o FsqFeatures(Tail(results))

\* r.location.address throws when a row with coordinates has no location.
FsqThrows(results) ==
    \E i \in 1..Len(results) : HasCoordinates(results[i]) /\ results[i].location = <<>>

fsqResultsToGeoJSON(results) ==
    [type |-> "FeatureCollection", features |-> FsqFeatures(results)]

(***************************************************************************)
(* foursquareByPlaceTool.execute.                                          *)
(***************************************************************************)
FsqInput(place, minRating) ==
    [ place |-> place, query |-> "restaurants", radiusKm |-> 3, limit |-> 10,
      minRating |-> minRating ]

\* Tool inputs after the schema has filled in its defaults.
FsqInputSet ==
    { [FsqInput(<<"a", "b", " ">>, <<>>) EXCEPT !.limit = 2],
      FsqInput(<<"a", "b", " ">>, <<40>>) }

\* runNominatimSearch({ query: place, limit: 1 })
PlaceLookupArgs(place) ==
    [ query |-> place, limit |-> <<1>>, countrycodes |-> <<>>,
      polygon |-> <<>>, language |-> <<>>, near |-> <<>> ]

CouldNotLocate(place) == Failure(<<"Could not locate \"">> \o place \o <<"\"">>)

NoUsableCentroid == Failure(<<"No usable centroid from place geometry">>)

\* SelectSeq with a predicate on the feature and the threshold
RECURSIVE RatingFilter(_, _)
RatingFilter(features, minRating) ==
    IF features = <<>> THEN <<>>
    ELSE LET f == features[1]
             keep == "rating" \in DOMAIN f.properties /\ f.properties.rating >= minRating
         IN  (IF keep THEN <<f>> ELSE <<>>) \o RatingFilter(Tail(features), minRating)

SearchCenter(place, g) ==
    [ type |-> "Feature",
      properties |-> [source |-> "nominatim", name |-> place, category |-> "search-center"],
      geometry |-> g ]

\* The step after the place lookup, returning the result of the lookup itself
\* when the place was not located.
FsqAfterPlacePropagate(call, key_present) ==
    LET nomi == call.nomi[1]
        located == nomi.ok /\ nomi.data.features # <<>>
        g == nomi.data.features[1].geometry
        c == centroid(<<g>>)
        opts == [ ll |-> [lat |-> Nth(c[1], 2), lng |-> Nth(c[1], 1)], query |-> call.input.query,
                  radiusMeters |-> call.input.radiusKm * 1000, limit |-> call.input.limit ]
    IN  IF ~located
        THEN [call EXCEPT !.pc = "done", !.result = call.nomi]
        ELSE IF c = <<>>
        THEN [call EXCEPT !.pc = "done", !.result = <<NoUsableCentroid>>]
        ELSE IF ~key_present
        THEN [call EXCEPT !.pc = "done", !.result = <<FsqMissingKey>>,
                          !.g = <<g>>, !.c = c]
        ELSE [call EXCEPT !.pc = "poi", !.g = <<g>>, !.c = c,
                          !.preq = 1, !.poiReq = <<FsqRequest(opts)>>]

\* The step after the place lookup, searching around the first vertex of the
\* geometry instead of its centroid.
FsqAfterPlaceFirstVertex(call, key_present) ==
    LET nomi == call.nomi[1]
        place == call.input.place
        located == nomi.ok /\ nomi.data.features # <<>>
        g == nomi.data.features[1].geometry
        c == centroid(<<g>>)
        v == IF g.type = "Polygon" THEN FirstOf(OuterRing(g.coordinates)) ELSE c
        opts == [ ll |-> [lat |-> v[1][2], lng |-> v[1][1]], query |-> call.input.query,
                  radiusMeters |-> call.input.radiusKm * 1000, limit |-> call.input.limit ]
    IN  IF ~located
        THEN [call EXCEPT !.pc = "done", !.result = <<CouldNotLocate(place)>>]
        ELSE IF c = <<>>
        THEN [call EXCEPT !.pc = "done", !.result = <<NoUsableCentroid>>]
        ELSE IF ~key_present
        THEN [call EXCEPT !.pc = "done", !.result = <<FsqMissingKey>>,
                          !.g = <<g>>, !.c = c]
        ELSE [call EXCEPT !.pc = "poi", !.g = <<g>>, !.c = c,
                          !.preq = 1, !.poiReq = <<FsqRequest(opts)>>]

\* The step after the place lookup has returned: the check of its result, the
\* centroid, and the POI request (or the failure of fsqSearch without a key).
FsqAfterPlace(call, key_present) ==
    LET nomi == call.nomi[1]
        place == call.input.place
        located == nomi.ok /\ nomi.data.features # <<>>
        g == nomi.data.features[1].geometry
        c == centroid(<<g>>)
        opts == [ ll |-> [lat |-> Nth(c[1], 2), lng |-> Nth(c[1], 1)], query |-> call.input.query,
                  radiusMeters |-> call.input.radiusKm * 1000, limit |-> call.input.limit ]
    IN  IF ~located
        THEN [call EXCEPT !.pc = "done", !.result = <<CouldNotLocate(place)>>]
        ELSE IF c = <<>>
        THEN [call EXCEPT !.pc = "done", !.result = <<NoUsableCentroid>>]
        ELSE IF ~key_present
        THEN [call EXCEPT !.pc = "done", !.result = <<FsqMissingKey>>,
                          !.g = <<g>>, !.c = c]
        ELSE [call EXCEPT !.pc = "poi", !.g = <<g>>, !.c = c,
                          !.preq = 1, !.poiReq = <<FsqRequest(opts)>>]

\* The step after the POI provider has answered, with the search centre
\* prepended to the features of the place lookup's own collection as well.
FsqAfterSearchShared(call, sr) ==
    LET fc == fsqResultsToGeoJSON(sr.data)
        filtered == IF call.input.minRating # <<>>
                    THEN RatingFilter(fc.features, call.input.minRating[1])
                    ELSE fc.features
        center == SearchCenter(call.input.place, call.g[1])
        out == [ type |-> "FeatureCollection", features |-> <<center>> \o filtered ]
    IN  IF ~sr.ok
        THEN [call EXCEPT !.pc = "done", !.result = <<sr>>]
        ELSE IF FsqThrows(sr.data)
        THEN [call EXCEPT !.pc = "fault", !.poiRows = sr.data]
        ELSE [call EXCEPT !.pc = "done", !.poiRows = sr.data,
                          !.nomi = <<[call.nomi[1] EXCEPT !.data.features = <<center>> \o @]>>,
                          !.result = <<Success(out, "fsq")>>]

\* The step after the POI provider has answered.
FsqAfterSearch(call, sr) ==
    LET fc == fsqResultsToGeoJSON(sr.data)
        filtered == IF call.input.minRating # <<>>
                    THEN RatingFilter(fc.features, call.input.minRating[1])
                    ELSE fc.features
        out == [ type |-> "FeatureCollection",
                 features |-> <<SearchCenter(call.input.place, call.g[1])>> \o filtered ]
    IN  IF ~sr.ok
        THEN [call EXCEPT !.pc = "done", !.result = <<sr>>]
        ELSE IF FsqThrows(sr.data)
        THEN [call EXCEPT !.pc = "fault", !.poiRows = sr.data]
        ELSE [call EXCEPT !.pc = "done", !.poiRows = sr.data,
                          !.result = <<Success(out, "fsq")>>]

(***************************************************************************)
(* lib/tools/tripadvisor.ts: the address cache and the centroid utilities. *)
(***************************************************************************)
GEOCODE_CACHE_TTL_MS == 24 * 60 * 60 * 1000
GEOCODE_CACHE_MAX == 500

geocodeCacheSet(C, k, v, t, wid, ins) ==
    cacheSetMax(C, GEOCODE_CACHE_MAX, k, v, GEOCODE_CACHE_TTL_MS, t, wid, ins)

RatAdd(p, q) == Rat(p.n * q.d + q.n * p.d, p.d * q.d)
RatMul(p, q) == Rat(p.n * q.n, p.d * q.d)
RatDiv(p, q) == Rat(p.n * q.d, p.d * q.n)
RatAbs(p) == [n |-> Abs(p.n), d |-> p.d]
Zero == Rat(0, 1)

\* closeRing: the ring with its first vertex repeated at the end, unless it is
\* empty or already closed.
closeRing(ring) ==
    IF ring = <<>> THEN ring
    ELSE IF ring[1] = ring[Len(ring)] THEN ring
    ELSE Append(ring, ring[1])

OpenTerms(r) ==
    [ i \in 1..(Len(r) - 1) |->
        LET a == r[i][1] * r[i + 1][2] - r[i + 1][1] * r[i][2]
        IN  [a |-> a, cx |-> (r[i][1] + r[i + 1][1]) * a, cy |-> (r[i][2] + r[i + 1][2]) * a] ]

\* ringCentroid: optional {cx, cy, area}; null when the signed area is zero.
ringCentroid(ring) ==
    LET r == closeRing(ring)
        terms == IF r = <<>> THEN <<>> ELSE OpenTerms(r)
        twiceArea == SumField(terms, "a")
    IN  IF twiceArea = 0 THEN <<>>
        ELSE << [ cx |-> Rat(SumField(terms, "cx"), 3 * twiceArea),
                  cy |-> Rat(SumField(terms, "cy"), 3 * twiceArea),
                  area |-> Rat(twiceArea, 2) ] >>

RECURSIVE SumCoord(_, _)
SumCoord(pts, j) == IF pts = <<>> THEN 0 ELSE pts[1][j] + SumCoord(Tail(pts), j)

\* The arithmetic mean of a list of coordinates, null for the empty list.
MeanOf(pts) ==
    IF pts = <<>> THEN <<>>
    ELSE << <<Rat(SumCoord(pts, 1), Len(pts)), Rat(SumCoord(pts, 2), Len(pts))>> >>

\* Array.prototype.flat (one level)
RECURSIVE Flat(_)
Flat(xs) == IF xs = <<>> THEN <<>> ELSE xs[1] \o Flat(Tail(xs))

\* The area-weighted sums over the member polygons of a MultiPolygon.
RECURSIVE MultiSums(_)
MultiSums(polys) ==
    IF polys = <<>> THEN [cx |-> Zero, cy |-> Zero, a |-> Zero]
    ELSE LET rest == MultiSums(Tail(polys))
             outer == OuterRing(polys[1])
             rc == IF outer = <<>> THEN <<>> ELSE ringCentroid(outer)
         IN  IF rc = <<>> THEN rest
             ELSE [ cx |-> RatAdd(RatMul(rc[1].cx, RatAbs(rc[1].area)), rest.cx),
                    cy |-> RatAdd(RatMul(rc[1].cy, RatAbs(rc[1].area)), rest.cy),
                    a  |-> RatAdd(RatAbs(rc[1].area), rest.a) ]

geometryCentroid(g) ==
    CASE g.type = "Point" -> <<PointCoordinates(g)>>
      [] g.type \in {"MultiPoint", "LineString"} -> MeanOf(g.coordinates)
      [] g.type = "MultiLineString" -> MeanOf(Flat(g.coordinates))
      [] g.type = "Polygon" ->
           LET outer == OuterRing(g.coordinates)
               rc == ringCentroid(outer)
           IN  IF outer = <<>> THEN <<>>
               ELSE IF rc # <<>> THEN << <<rc[1].cx, rc[1].cy>> >>
               ELSE MeanOf(outer)
      [] g.type = "MultiPolygon" ->
           LET sums == MultiSums(g.coordinates)
           IN  IF sums.a.n > 0
               THEN << <<RatDiv(sums.cx, sums.a), RatDiv(sums.cy, sums.a)>> >>
               ELSE MeanOf(Flat(Flat(g.coordinates)))
      [] OTHER -> <<>>

\* The first coordinate of the geometry, used when geometryCentroid gives none.
FirstCoordinate(g) ==
    CASE g.type = "Point" ->
           << <<Rat(g.coordinates[1], 1), Rat(g.coordinates[2], 1)>> >>
      [] g.type = "Polygon" -> FirstOf(OuterRing(g.coordinates))
      [] g.type = "MultiPolygon" -> FirstOf(OuterRing(OuterRing(g.coordinates)))
      [] OTHER -> <<>>

(***************************************************************************)
(* lib/tools/tripadvisor.ts: fallback geocoder and tripAdvisorByPlaceTool. *)
(***************************************************************************)
\* near.lat.toFixed(3) of a coordinate in units of 1e-5 degree: the nearest
\* multiple of 1e-3 degree, half away from zero.
toFixed3(p) ==
    LET m == (2 * Abs(p.n) + 100 * p.d) \div (200 * p.d)
    IN  IF p.n < 0 THEN -m ELSE m

\* The key of geocodeAddressWithCache (the caller always passes the centre).
geocodeKey(address, near) ==
    [ address |-> trim(toLowerCase(address)),
      near |-> <<toFixed3(near.lat), toFixed3(near.lng)>> ]

TaItem(id, lat, lng, address) ==
    [ location_id |-> id, name |-> "t", address |-> address, address_obj |-> <<>>,
      latitude |-> lat, longitude |-> lng ]

TaItemSets ==
    { <<>>,
      <<TaItem("t1", <<5>>, <<7>>, <<>>),
        TaItem("t2", <<>>, <<>>, << <<"A", "d", " ">> >>),
        TaItem("t3", <<>>, <<>>, <<>>),
        TaItem("t4", <<>>, <<>>, << <<"a", "d">> >>)>> }

\* item.address || item.address_obj?.address_string
AddressOf(item) ==
    IF item.address # <<>> /\ item.address # << <<>> >> THEN item.address
    ELSE item.address_obj

poiFeature(item, lng, lat) ==
    [ type |-> "Feature",
      properties |->
        [ source |-> "tripadvisor", location_id |-> item.location_id,
          name |-> item.name, address |-> AddressOf(item), category |-> "poi" ],
      geometry |-> [type |-> "Point", coordinates |-> <<lng, lat>>] ]

TaInputSet == { [place |-> <<"a", "b">>, category |-> "restaurants", radiusKm |-> 3] }

TaMissingKey == Failure(<<"Missing TRIPADVISOR_API_KEY (server env var)">>)

TaCouldNotLocate(place) ==
    Failure(<<"Could not locate \"">> \o place \o <<"\" via Nominatim">>)

TaNoCoordinate == Failure(<<"No usable coordinate from Nominatim geometry">>)

\* lib/tools/nominatim.ts: what nominatimSearchTool.execute returns for a fetch
\* that did not throw.
NominatimToolResult(outcome, rows) ==
    IF outcome # 200
    THEN Failure(<<"Nominatim error ", ToString(outcome)>>)
    ELSE [ok |-> TRUE, data |-> toFeatureCollection(rows)]

NewTaCall(input, t, cs) ==
    [ kind |-> "ta", pre |-> FALSE, input |-> input,
      args |-> [query |-> input.place, limit |-> <<1>>],
      pc |-> "nominatim", npc |-> "fetch", nomi |-> <<>>,
      issuedAt |-> t, before |-> Returned(cs), result |-> <<>>,
      nreq |-> 1, preq |-> 0, poiReq |-> <<>>, poiRows |-> <<>>, g |-> <<>>, c |-> <<>>,
      items |-> <<>>, idx |-> 1, features |-> <<>>, geocodeCount |-> 0,
      greq |-> 0, gkey |-> <<>>, log |-> <<>> ]

\* The step after the place lookup has returned: the centre and the POI request.
TaAfterPlace(call) ==
    LET nomi == call.nomi[1]
        place == call.input.place
        located == nomi.ok /\ nomi.data.features # <<>>
        geom == nomi.data.features[1].geometry
        c == geometryCentroid(geom)
        center == IF c # <<>> THEN c ELSE FirstCoordinate(geom)
    IN  IF ~located
        THEN [call EXCEPT !.pc = "done", !.result = <<TaCouldNotLocate(place)>>]
        ELSE IF center = <<>>
        THEN [call EXCEPT !.pc = "done", !.result = <<TaNoCoordinate>>]
        ELSE [call EXCEPT !.pc = "poi", !.g = <<geom>>, !.c = center, !.preq = 1,
                          !.poiReq = << [ latLong |-> [lat |-> center[1][2], lng |-> center[1][1]],
                                          category |-> call.input.category,
                                          radius |-> call.input.radiusKm ] >>]

\* The loop over the POI rows from row idx up to the next suspension: a fetch
\* of the fallback geocoder, a sleep, or the return of the result.
RECURSIVE TaLoop(_, _, _)
TaLoop(call, GC, t) ==
    IF call.idx > Len(call.items)
    THEN [ call |-> [call EXCEPT !.pc = "done",
                       !.result = <<[ok |-> TRUE,
                                     data |-> [type |-> "FeatureCollection",
                                               features |-> call.features]]>>],
           gc |-> GC ]
    ELSE LET item == call.items[call.idx]
             next == [call EXCEPT !.idx = call.idx + 1]
             center == [lat |-> call.c[1][2], lng |-> call.c[1][1]]
         IN  IF item.latitude # <<>> /\ item.longitude # <<>>
             THEN TaLoop([next EXCEPT !.features = Append(call.features,
                              poiFeature(item, Rat(item.longitude[1], 1), Rat(item.latitude[1], 1)))],
                         GC, t)
             ELSE IF AddressOf(item) = <<>>
             THEN TaLoop(next, GC, t)
             ELSE LET key == geocodeKey(AddressOf(item)[1], center)
                      got == cacheGet(GC, key, t)
                  IN  IF got.value # <<>>
                      THEN [ call |-> [next EXCEPT !.pc = "sleep",
                                         !.features = Append(call.features,
                                             poiFeature(item, got.value[1].lng, got.value[1].lat)),
                                         !.geocodeCount = call.geocodeCount + 1,
                                         !.log = Append(call.log, "hit")],
                             gc |-> got.cache ]
                      ELSE [ call |-> [call EXCEPT !.pc = "geocode", !.gkey = <<key>>,
                                         !.greq = call.greq + 1,
                                         !.log = Append(call.log, "request")],
                             gc |-> got.cache ]

\* The step after the POI provider has answered with status 200 and its rows.
TaAfterSearch(call, items, GC, t) ==
    LET center == SearchCenter(call.input.place,
                               [type |-> "Point", coordinates |-> call.c[1]])
    IN  TaLoop([call EXCEPT !.items = items, !.idx = 1, !.features = <<center>>,
                            !.geocodeCount = 0],
               GC, t)

\* The failure tripAdvisorByPlaceTool returns for a non-success POI status.
TaFailure(outcome) == Failure(<<"TripAdvisor error ", ToString(outcome)>>)

(***************************************************************************)
(* Initial states.  InitCold is the state after construction: both caches  *)
(* empty, no invocation made.  InitWarm is the process after two           *)
(* a Place Resolver call that the provider answered with 503 at time 0,    *)
(* with or without a second call for the same key that overlapped it and   *)
(* is still waiting for the provider, followed by calls for other keys     *)
(* that filled both caches.  The environment variables are fixed for the   *)
(* life of the process; the runs without a key start from the empty        *)
(* caches.                                                                 *)
(***************************************************************************)
Envs == [FOURSQUARE_API_KEY : BOOLEAN, TRIPADVISOR_API_KEY : BOOLEAN]

\* fnIn and fnOut hold the arguments and the value of a pure function under
\* study; the tools do not use them.
NoFunction == fnIn = <<>> /\ fnOut = <<>>

\* No chat page is open.
NoChat ==
    /\ messages = <<>>
    /\ processedIds = {}
    /\ dispatched = <<>>
    /\ mapInit = "none"
    /\ handled = <<>>

InitCold ==
    /\ NoFunction
    /\ NoChat
    /\ now = 0
    /\ CACHE = <<>>
    /\ geocodeCache = <<>>
    /\ env \in Envs
    /\ calls = <<>>
    /\ seq = 0

WarmArgs == Args(<<"A", "b">>, <<1>>, <<TRUE>>)

FillerArgs(i) ==
    [ query |-> <<"z", "z">>, limit |-> <<5>>, countrycodes |-> <<>>,
      polygon |-> <<TRUE>>, language |-> <<>>,
      near |-> <<[lat |-> 10 * i, lng |-> 0, radiusKm |-> <<200>>]>> ]

FillerEntry(i) ==
    [ k |-> cacheKey(FillerArgs(i)),
      value |-> Success(toFeatureCollection(<<>>), "nominatim"),
      expires |-> CACHE_TTL_MS, at |-> 0, ins |-> 1 + i, wid |-> 0 - i ]

GeocodeFillerEntry(i) ==
    [ k |-> [address |-> <<"z">>, near |-> <<i, 0>>],
      value |-> [lng |-> Rat(0, 1), lat |-> Rat(i, 1)],
      expires |-> GEOCODE_CACHE_TTL_MS, at |-> 0, ins |-> i, wid |-> 0 - i ]

WarmOutcomes == { [outcome |-> 503, rows |-> <<>>] }

WarmResult(w) ==
    IF w.outcome = 200 THEN Success(toFeatureCollection(w.rows), "nominatim")
    ELSE NominatimFailure(w.outcome)

WarmTtl(w) == NominatimTtl(w.outcome)

WarmEntry(w) ==
    [ k |-> cacheKey(WarmArgs), value |-> WarmResult(w),
      expires |-> WarmTtl(w), at |-> 0, ins |-> 1, wid |-> 1 ]

WarmPending(me) ==
    [ NewCall("place", WarmArgs, WarmArgs,
              [ result |-> <<>>, req |-> <<NominatimRequest(WarmArgs)>>, seen |-> 0,
                wid |-> 0, expires |-> 0 ],
              0, me, <<>>)
      EXCEPT !.pre = TRUE ]

WarmCache(w) == <<WarmEntry(w)>> \o [i \in 1..(CACHE_MAX - 1) |-> FillerEntry(i)]

WarmCalls(w, overlap) ==
    << [ WarmPending(1) EXCEPT !.pc = "done", !.npc = "done", !.retAt = 0,
           !.nomi = <<WarmResult(w)>>, !.result = <<WarmResult(w)>>,
           !.got = <<w.outcome>>, !.wid = 1, !.expires = WarmTtl(w),
           !.stored = <<WarmEntry(w)>> ] >>
        \o (IF overlap THEN <<WarmPending(2)>> ELSE <<>>)

WarmGeocodeCache == [i \in 1..GEOCODE_CACHE_MAX |-> GeocodeFillerEntry(i)]

InitWarm ==
    /\ NoFunction
    /\ NoChat
    /\ now = 0
    /\ env = [FOURSQUARE_API_KEY |-> TRUE, TRIPADVISOR_API_KEY |-> TRUE]
    /\ \E w \in WarmOutcomes, overlap \in BOOLEAN :
         CACHE = WarmCache(w) /\ calls = WarmCalls(w, overlap)
    /\ geocodeCache = WarmGeocodeCache
    /\ seq = CACHE_MAX + GEOCODE_CACHE_MAX

Init == InitCold \/ InitWarm

\* The initial states of the Place Resolver and Foursquare invocations: the
\* address cache and the TripAdvisor key play no part.
InitCache ==
    /\ NoFunction
    /\ NoChat
    /\ now = 0
    /\ env \in {e \in Envs : e.TRIPADVISOR_API_KEY}
    /\ geocodeCache = <<>>
    /\ \/ CACHE = <<>> /\ calls = <<>> /\ seq = 0
       \/ /\ env.FOURSQUARE_API_KEY
          /\ \E w \in WarmOutcomes, overlap \in BOOLEAN :
                CACHE = WarmCache(w) /\ calls = WarmCalls(w, overlap)
          /\ seq = CACHE_MAX

\* The initial states of the TripAdvisor invocations: CACHE and the
\* Foursquare key play no part.
InitTa ==
    /\ NoFunction
    /\ NoChat
    /\ now = 0
    /\ CACHE = <<>>
    /\ calls = <<>>
    /\ \/ env \in {e \in Envs : e.FOURSQUARE_API_KEY} /\ geocodeCache = <<>> /\ seq = 0
       \/ /\ env = [FOURSQUARE_API_KEY |-> TRUE, TRIPADVISOR_API_KEY |-> TRUE]
          /\ geocodeCache = WarmGeocodeCache
          /\ seq = GEOCODE_CACHE_MAX

NewCalls == Cardinality({i \in DOMAIN calls : ~calls[i].pre})

(***************************************************************************)
(* Actions.                                                                *)
(***************************************************************************)
\* Date.now() advances.
Tick ==
    /\ now + TickMs <= MaxTicks * TickMs
    /\ now' = now + TickMs
    /\ UNCHANGED <<CACHE, geocodeCache, env, calls, seq, fnIn, fnOut, chatVars>>

\* nominatimSearchTool.execute(args): the Place Resolver is called.
PlaceCall ==
    /\ NewCalls < MaxCalls
    /\ \E a \in PlaceArgSet :
         LET me == Len(calls) + 1
             st == runNominatimSearchStart(a, CACHE, now, me, seq + 1)
             call == NewCall("place", a, a, st, now, me, calls)
         IN  /\ CACHE' = st.cache
             /\ calls' = Append(calls, IF st.result # <<>> THEN PlaceReturn(call) ELSE call)
    /\ seq' = seq + 1
    /\ UNCHANGED <<now, geocodeCache, env, fnIn, fnOut, chatVars>>

\* foursquareByPlaceTool.execute(input): the chained resolver is called.
FsqCall ==
    /\ NewCalls < MaxCalls
    /\ \E inp \in FsqInputSet :
         LET me == Len(calls) + 1
             a == PlaceLookupArgs(inp.place)
             st == runNominatimSearchStart(a, CACHE, now, me, seq + 1)
             call == NewCall("fsq", inp, a, st, now, me, calls)
         IN  /\ CACHE' = st.cache
             /\ calls' = Append(calls, IF st.result # <<>>
                                       THEN FsqAfterPlace(call, env.FOURSQUARE_API_KEY)
                                       ELSE call)
    /\ seq' = seq + 1
    /\ UNCHANGED <<now, geocodeCache, env, fnIn, fnOut, chatVars>>

\* The geocoding provider answers a pending request of runNominatimSearch
\* (fetch and, for status 200, the body): the result is cached and returned.
NominatimRespond ==
    /\ \E i \in DOMAIN calls :
         /\ calls[i].kind \in {"place", "fsq"}
         /\ calls[i].pc = "nominatim"
         /\ calls[i].npc = "fetch"
         /\ \E outcome \in FetchOutcomes :
              \E rows \in (IF outcome = 200 THEN RowSets ELSE {<<>>}) :
                LET res == IF outcome = 200
                           THEN Success(toFeatureCollection(rows), "nominatim")
                           ELSE NominatimFailure(outcome)
                    ttl == NominatimTtl(outcome)
                    call == [calls[i] EXCEPT !.npc = "done", !.nomi = <<res>>,
                                             !.got = <<outcome>>, !.wid = i,
                                             !.retAt = now,
                                             !.expires = now + ttl]
                    cache == cacheSet(CACHE, call.key, res, ttl, now, i, seq + 1)
                    ret == [call EXCEPT !.stored = EntryOf(cache, call.key)]
                IN  /\ CACHE' = cache
                    /\ calls' = [calls EXCEPT ![i] =
                                   IF ret.kind = "place"
                                   THEN PlaceReturn(ret)
                                   ELSE FsqAfterPlace(ret, env.FOURSQUARE_API_KEY)]
    /\ seq' = seq + 1
    /\ UNCHANGED <<now, geocodeCache, env, fnIn, fnOut, chatVars>>

\* The result that runNominatimSearch returned to the invocation is the
\* object the cache entry holds (a hit returns the stored value, a miss stores
\* the value it returns): as long as the entry is that writer's, the
\* cache holds whatever the invocation has made of the object.
SharedResult(C, call) ==
    LET n == IndexOf(C, call.key)
    IN  IF n # 0 /\ call.stored # <<>> /\ C[n].wid = call.stored[1].wid
        THEN [C EXCEPT ![n].value = call.nomi[1]]
        ELSE C

\* The POI provider answers the pending search of a chained Foursquare call.
FsqRespond ==
    /\ \E i \in DOMAIN calls :
         /\ calls[i].kind = "fsq"
         /\ calls[i].pc = "poi"
         /\ \E sr \in FsqOutcomes :
              LET ret == FsqAfterSearch(calls[i], sr)
              IN  /\ calls' = [calls EXCEPT ![i] = ret]
                  /\ CACHE' = SharedResult(CACHE, ret)
    /\ UNCHANGED <<now, geocodeCache, env, seq, fnIn, fnOut, chatVars>>

\* tripAdvisorByPlaceTool.execute(input): without the key it fails at once,
\* otherwise it sends the place lookup of lib/tools/nominatim.ts.
TaCall ==
    /\ NewCalls < MaxCalls
    /\ \E inp \in TaInputSet :
         LET call == NewTaCall(inp, now, calls)
         IN  calls' = Append(calls,
                 IF ~env.TRIPADVISOR_API_KEY
                 THEN [call EXCEPT !.pc = "done", !.npc = "none", !.nreq = 0,
                                   !.result = <<TaMissingKey>>]
                 ELSE call)
    /\ UNCHANGED <<now, CACHE, geocodeCache, env, seq, fnIn, fnOut, chatVars>>

\* The geocoding provider answers the place lookup of a TripAdvisor call; a
\* transport error is not caught.
TaPlaceRespond ==
    /\ \E i \in DOMAIN calls :
         /\ calls[i].kind = "ta"
         /\ calls[i].pc = "nominatim"
         /\ \E outcome \in FetchOutcomes :
              \E rows \in (IF outcome = 200 THEN RowSets ELSE {<<>>}) :
                calls' = [calls EXCEPT ![i] =
                    IF outcome = 0
                    THEN [calls[i] EXCEPT !.pc = "fault", !.npc = "done"]
                    ELSE TaAfterPlace([calls[i] EXCEPT !.npc = "done",
                                          !.nomi = <<NominatimToolResult(outcome, rows)>>])]
    /\ UNCHANGED <<now, CACHE, geocodeCache, env, seq, fnIn, fnOut, chatVars>>

\* The POI provider answers the nearby search of a TripAdvisor call.
TaRespond ==
    /\ \E i \in DOMAIN calls :
         /\ calls[i].kind = "ta"
         /\ calls[i].pc = "poi"
         /\ \E outcome \in FetchOutcomes :
              \E items \in (IF outcome = 200 THEN TaItemSets ELSE {<<>>}) :
                LET step == TaAfterSearch(calls[i], items, geocodeCache, now)
                IN  IF outcome = 0
                    THEN /\ calls' = [calls EXCEPT ![i] = [calls[i] EXCEPT !.pc = "fault"]]
                         /\ UNCHANGED geocodeCache
                    ELSE IF outcome # 200
                    THEN /\ calls' = [calls EXCEPT ![i] =
                                        [calls[i] EXCEPT !.pc = "done",
                                                         !.result = <<TaFailure(outcome)>>]]
                         /\ UNCHANGED geocodeCache
                    ELSE /\ calls' = [calls EXCEPT ![i] = step.call]
                         /\ geocodeCache' = step.gc
    /\ UNCHANGED <<now, CACHE, env, seq, fnIn, fnOut, chatVars>>

\* The geocoding provider answers a pending request of geocodeAddressWithCache:
\* a first row is cached and the POI pushed, then the loop sleeps; without a
\* row the POI is skipped; a transport error is not caught.
GeocodeRespond ==
    /\ \E i \in DOMAIN calls :
         /\ calls[i].kind = "ta"
         /\ calls[i].pc = "geocode"
         /\ \E outcome \in FetchOutcomes :
              \E rows \in (IF outcome = 200 THEN RowSets ELSE {<<>>}) :
                LET call == calls[i]
                    item == call.items[call.idx]
                    value == [lng |-> Rat(rows[1].lon, 1), lat |-> Rat(rows[1].lat, 1)]
                    skip == TaLoop([call EXCEPT !.idx = call.idx + 1], geocodeCache, now)
                IN  IF outcome = 0
                    THEN /\ calls' = [calls EXCEPT ![i] = [call EXCEPT !.pc = "fault"]]
                         /\ UNCHANGED <<geocodeCache, seq>>
                    ELSE IF outcome # 200 \/ rows = <<>>
                    THEN /\ calls' = [calls EXCEPT ![i] = skip.call]
                         /\ geocodeCache' = skip.gc
                         /\ UNCHANGED seq
                    ELSE /\ calls' = [calls EXCEPT ![i] =
                                        [call EXCEPT !.pc = "sleep", !.idx = call.idx + 1,
                                           !.features = Append(call.features,
                                               poiFeature(item, value.lng, value.lat)),
                                           !.geocodeCount = call.geocodeCount + 1]]
                         /\ geocodeCache' = geocodeCacheSet(geocodeCache, call.gkey[1], value,
                                                            now, i, seq + 1)
                         /\ seq' = seq + 1
    /\ UNCHANGED <<now, CACHE, env, fnIn, fnOut, chatVars>>

\* sleep(1100) ends and the loop goes on with the next POI row.
TaWake ==
    /\ \E i \in DOMAIN calls :
         /\ calls[i].kind = "ta"
         /\ calls[i].pc = "sleep"
         /\ LET step == TaLoop([calls[i] EXCEPT !.log = Append(calls[i].log, "sleep")],
                               geocodeCache, now)
            IN  /\ calls' = [calls EXCEPT ![i] = step.call]
                /\ geocodeCache' = step.gc
    /\ UNCHANGED <<now, CACHE, env, seq, fnIn, fnOut, chatVars>>

Next ==
    \/ Tick
    \/ PlaceCall
    \/ FsqCall
    \/ NominatimRespond
    \/ FsqRespond
    \/ TaCall
    \/ TaPlaceRespond
    \/ TaRespond
    \/ GeocodeRespond
    \/ TaWake

Spec == Init /\ [][Next]_vars

\* The Place Resolver and the chained Foursquare resolver alone: the
\* invocations that use CACHE.
NextCache ==
    \/ Tick
    \/ PlaceCall
    \/ FsqCall
    \/ NominatimRespond
    \/ FsqRespond

SpecCache == InitCache /\ [][NextCache]_vars

\* The chained TripAdvisor resolver alone: the invocations that use
\* geocodeCache.
NextTa ==
    \/ Tick
    \/ TaCall
    \/ TaPlaceRespond
    \/ TaRespond
    \/ GeocodeRespond
    \/ TaWake

SpecTa == InitTa /\ [][NextTa]_vars

(***************************************************************************)
(* Both chained resolvers.  An invocation of the TripAdvisor chain shares  *)
(* no state with an invocation of the other two tools (geocodeCache on one *)
(* side, CACHE on the other), so their steps commute: SpecChains explores  *)
(* the runs whose invocations are all of one of the two groups, each with  *)
(* the cache of the other group empty.                                     *)
(***************************************************************************)
OnlyTa == CACHE = <<>> /\ \A i \in DOMAIN calls : calls[i].kind = "ta"

NoTa == geocodeCache = <<>> /\ \A i \in DOMAIN calls : calls[i].kind # "ta"

InitChains == InitCache \/ InitTa

PlaceCallAlone == NoTa /\ PlaceCall

FsqCallAlone == NoTa /\ FsqCall

TaCallAlone == OnlyTa /\ TaCall

NextChains ==
    \/ Tick
    \/ PlaceCallAlone
    \/ FsqCallAlone
    \/ NominatimRespond
    \/ FsqRespond
    \/ TaCallAlone
    \/ TaPlaceRespond
    \/ TaRespond
    \/ GeocodeRespond
    \/ TaWake

SpecChains == InitChains /\ [][NextChains]_vars

(***************************************************************************)
(* cacheKey as a function of two argument objects.                         *)
(***************************************************************************)
KeyBase ==
    [ query |-> <<"a", "b">>, limit |-> <<5>>, countrycodes |-> <<"">>,
      polygon |-> <<TRUE>>, language |-> <<"">>,
      near |-> <<[lat |-> 123444, lng |-> 0 - 123446, radiusKm |-> <<200>>]>> ]

KeyNear(lat, lng, r) == [KeyBase EXCEPT !.near = <<[lat |-> lat, lng |-> lng, radiusKm |-> r]>>]

\* Argument objects that differ from KeyBase in one field: the query, the
\* options left out or given, the bias centre and the radius around the
\* rounding boundaries.
KeyArgs ==
    {KeyBase}
        \cup {[KeyBase EXCEPT !.query = q] :
                 q \in {<<"A", "B">>, <<" ", "a", "b", " ">>, <<"a", " ", "b">>, <<"a", "c">>, <<" ", "a">>}}
        \cup {[KeyBase EXCEPT !.limit = l] : l \in {<<>>, <<1>>, <<10>>}}
        \cup {[KeyBase EXCEPT !.countrycodes = c] : c \in {<<>>, <<"kr">>, <<"kr,jp">>}}
        \cup {[KeyBase EXCEPT !.polygon = b] : b \in {<<>>, <<FALSE>>}}
        \cup {[KeyBase EXCEPT !.language = l] : l \in {<<>>, <<"en">>, <<"ko">>}}
        \cup {[KeyBase EXCEPT !.near = <<>>]}
        \cup {KeyNear(lat, 0 - 123446, <<200>>) : lat \in {123435, 123445, 0 - 123444, 0}}
        \cup {KeyNear(123444, lng, <<200>>) : lng \in {0 - 123445, 0 - 123454, 123446}}
        \cup {KeyNear(123444, 0 - 123446, r) : r \in {<<>>, <<10>>, <<195>>, <<204>>, <<205>>, <<1000>>}}

InitKey ==
    /\ now = 0
    /\ CACHE = <<>>
    /\ geocodeCache = <<>>
    /\ env = [FOURSQUARE_API_KEY |-> TRUE, TRIPADVISOR_API_KEY |-> TRUE]
    /\ calls = <<>>
    /\ seq = 0
    /\ fnIn \in KeyArgs \X KeyArgs
    /\ fnOut = <<>>
    /\ NoChat

\* The keys of the two argument objects are computed.
ApplyCacheKey ==
    /\ fnOut = <<>>
    /\ fnOut' = <<cacheKey(fnIn[1]), cacheKey(fnIn[2])>>
    /\ UNCHANGED <<now, CACHE, geocodeCache, env, calls, seq, fnIn, chatVars>>

NextKey == ApplyCacheKey

SpecKey == InitKey /\ [][NextKey]_vars

(***************************************************************************)
(* Properties of the Place Resolver cache.                                 *)
(***************************************************************************)
\* The invocations that run runNominatimSearch.
Lookups == {i \in DOMAIN calls : calls[i].kind \in {"place", "fsq"}}

\* Invocation j has the cache key of invocation i and was issued after the
\* place lookup of i had returned.
Later(i, j) == i # j /\ i \in calls[j].before /\ calls[i].key = calls[j].key

\* The place lookup of j returned what the lookup of i returned, without a
\* provider request.
SameResult(i, j) ==
    /\ calls[j].npc = "done"
    /\ calls[j].nomi = calls[i].nomi
    /\ calls[j].nreq = 0

\* C1 as stated: whenever a call has returned a result, any later call with
\* the same key issued within the TTL window of that result returns the
\* identical result and causes no provider request, whatever other calls
\* happen in between.
C1_Unconditional ==
    \A i \in Lookups, j \in Lookups :
        Later(i, j) /\ calls[j].issuedAt <= calls[i].expires => SameResult(i, j)

\* C1 amended: whenever a call has returned a result, any later call with the
\* same key issued within the TTL window of that result, at a moment when the
\* cache entry that result was written to or served from is still the entry
\* of the key (it has not been evicted, and no overlapping invocation has
\* written the key since), returns the identical result and causes no
\* provider request.
C1_CacheIdempotence ==
    \A i \in Lookups, j \in Lookups :
        /\ Later(i, j)
        /\ calls[j].issuedAt <= calls[i].expires
        /\ calls[j].seen = calls[i].wid
        => SameResult(i, j)

\* A call was served from the cache within the TTL window of an earlier call
\* that wrote the entry.
C1_Witness ==
    \E i \in Lookups, j \in Lookups :
        /\ Later(i, j)
        /\ calls[j].issuedAt <= calls[i].expires
        /\ calls[j].seen = calls[i].wid
        /\ calls[i].wid = i
        /\ calls[j].hit
        /\ ~calls[j].pre

\* C2: in every reachable state the result cache holds at most 300 entries
\* and the address cache at most 500.
C2_Capacity == Len(CACHE) <= 300 /\ Len(geocodeCache) <= 500

\* The result cache is full and holds a key that was inserted when it was
\* already full.
C2_Witness ==
    /\ Len(CACHE) = 300
    /\ \E n \in 1..Len(CACHE) : CACHE[n].ins > 300

\* The invocation issued in this step, if it runs runNominatimSearch.
Issued ==
    IF Len(calls') > Len(calls) /\ calls'[Len(calls')].kind \in {"place", "fsq"}
    THEN <<calls'[Len(calls')]>>
    ELSE <<>>

\* The invocations whose pending place lookup returns in this step.
Answered ==
    {i \in Lookups : calls[i].npc = "fetch" /\ calls'[i].npc = "done"}

\* The entries of the cache of the current state that the lookup of the
\* invocation issued in this step (if any) leaves in place: cacheGet deletes
\* the entry of its key when it has expired.
AfterGet ==
    LET c == Issued
    IN  {n \in 1..Len(CACHE) :
            ~(c # <<>> /\ now > CACHE[n].expires /\ c[1].key = CACHE[n].k)}

\* The entries evicted in this step: left in place by the lookup, and their
\* insertion is not in the cache of the next state.
Evicted ==
    LET kept == {CACHE'[m].ins : m \in 1..Len(CACHE')}
    IN  {n \in AfterGet : CACHE[n].ins \notin kept}

\* In the cache of the next state, key k is present and every key ahead of it
\* in the eviction order was inserted before the insertion ins of k.
NotMovedLater(k, ins) ==
    LET p == IndexOf(CACHE', k)
    IN  p # 0 /\ \A m \in 1..(p - 1) : CACHE'[m].ins < ins

C3Step ==
    LET c == Issued
        live == AfterGet
    IN  /\ \A n \in Evicted : \A m \in live : CACHE[n].ins <= CACHE[m].ins
        \* a cache hit
        /\ c # <<>> /\ c[1].hit =>
              NotMovedLater(c[1].key, CACHE[IndexOf(CACHE, c[1].key)].ins)
        \* an overwrite
        /\ \A i \in Answered :
              Has(CACHE, calls[i].key) =>
                 NotMovedLater(calls[i].key, CACHE[IndexOf(CACHE, calls[i].key)].ins)

\* C3: the entry evicted on an insert is the one whose key was inserted
\* earliest among those present, and neither a cache hit on a key nor an
\* overwrite of a key that is present moves it later in the eviction order:
\* afterwards the key is still ahead of every key inserted after it.
C3_EvictionOrder == [][C3Step]_vars

\* No other invocation was issued, or was still waiting for its place
\* lookup, between the issue of i and the issue of j.
Alone(i, j) == \A c \in DOMAIN calls \ {i, j} : c \in calls[i].before \/ c > j

\* C4: when the provider answers a Place Resolver request with a non-success
\* status S, the call returns a failure carrying S; the next identical call
\* (no other invocation issued or waiting in between), if issued within 2
\* minutes, returns the same failure with no provider request, and if issued
\* after the 2 minutes, issues a new provider request.
C4_FailureCaching ==
    \A i \in Lookups :
        calls[i].got # <<>> /\ calls[i].got[1] \notin {0, 200} =>
            /\ calls[i].nomi # <<>>
            /\ ~calls[i].nomi[1].ok
            /\ calls[i].nomi[1].status = calls[i].got
            /\ \A j \in Lookups :
                 Later(i, j) /\ Alone(i, j) =>
                    IF calls[j].issuedAt <= calls[i].retAt + 2 * 60 * 1000
                    THEN SameResult(i, j)
                    ELSE calls[j].nreq = 1 /\ calls[j].req # <<>>

\* A call failed with status 503 and the next identical call, issued after
\* the 2 minutes, has sent a new provider request.
C4_Witness ==
    \E i \in Lookups, j \in Lookups :
        /\ calls[i].got = <<503>>
        /\ Later(i, j)
        /\ Alone(i, j)
        /\ calls[j].issuedAt > calls[i].retAt + 2 * 60 * 1000
        /\ calls[j].nreq = 1

\* The time to live an entry was stored with.
TtlOf(e) == e.expires - e.at

\* C5 as stated: every failure result in the cache was stored with a TTL
\* strictly shorter than the TTL of a success result.
C5_EveryFailureShort ==
    \A n \in 1..Len(CACHE) : ~CACHE[n].value.ok => TtlOf(CACHE[n]) < CACHE_TTL_MS

\* C5 amended: every failure result stored after a provider or network
\* failure was stored with the 2-minute TTL, strictly shorter than the
\* 10-minute TTL of a success result; the validation failure "Query too
\* short" was stored with the TTL of a success result.
C5_ProviderFailureShort ==
    \A n \in 1..Len(CACHE) :
        IF CACHE[n].value.ok \/ CACHE[n].value = QueryTooShort
        THEN TtlOf(CACHE[n]) = 10 * 60 * 1000
        ELSE TtlOf(CACHE[n]) = 2 * 60 * 1000

\* The cache holds a provider or network failure stored by an invocation
\* that returned in this run.
C5_Witness ==
    \E n \in 1..Len(CACHE) :
        /\ ~CACHE[n].value.ok
        /\ CACHE[n].value # QueryTooShort
        /\ CACHE[n].wid \in DOMAIN calls
        /\ CACHE[n].ins > 1

\* C6: a Place Resolver call whose query has fewer than 2 characters after
\* trimming returns the failure "Query too short" at once, sends no provider
\* request, and the failure is in the cache under the key of the call with
\* the default TTL of 10 minutes when the call returns.
C6_QueryTooShort ==
    \A i \in Lookups :
        Len(trim(calls[i].args.query)) < 2 =>
            /\ calls[i].npc = "done"
            /\ calls[i].retAt = calls[i].issuedAt
            /\ calls[i].nomi = <<Failure(<<"Query too short">>)>>
            /\ calls[i].nreq = 0
            /\ calls[i].req = <<>>
            /\ calls[i].stored # <<>>
            /\ calls[i].stored[1].k = calls[i].key
            /\ calls[i].stored[1].value = Failure(<<"Query too short">>)
            /\ TtlOf(calls[i].stored[1]) = 10 * 60 * 1000

\* A Place Resolver call with a one-character query has returned.
C6_Witness ==
    \E i \in Lookups :
        /\ calls[i].kind = "place"
        /\ Len(trim(calls[i].args.query)) = 1
        /\ calls[i].pc = "done"
        /\ calls[i].wid = i

(***************************************************************************)
(* The cache key.                                                          *)
(***************************************************************************)
\* The multiple of 10 nearest to x, as the multiplier; of two nearest, the
\* one away from zero.
NearestTen(x) ==
    CHOOSE m \in ((x \div 10) - 1)..((x \div 10) + 1) :
        \/ 2 * Abs(10 * m - x) < 10
        \/ 2 * Abs(10 * m - x) = 10 /\ Abs(10 * m) > Abs(x)

\* The canonicalised fields of an argument object, defaults filled in: the
\* trimmed lower-cased query, the limit (5), the country filter (none), the
\* polygon flag (true), the locale (none), the bias centre in 1e-4 degree and
\* the radius in 0.1 km (2 km).
Canonical(args) ==
    << toLowerCase(trim(args.query)),
       IF args.limit = <<>> THEN 5 ELSE args.limit[1],
       IF args.countrycodes = <<>> THEN "" ELSE args.countrycodes[1],
       IF args.polygon = <<>> THEN TRUE ELSE args.polygon[1],
       IF args.language = <<>> THEN "" ELSE args.language[1],
       IF args.near = <<>> THEN <<>>
       ELSE << NearestTen(args.near[1].lat), NearestTen(args.near[1].lng),
               IF args.near[1].radiusKm = <<>> THEN 20
               ELSE NearestTen(args.near[1].radiusKm[1]) >> >>

\* C7: two calls get the same cache key exactly when they agree on every
\* canonicalised field.
C7_KeyCanonical ==
    fnOut # <<>> =>
        ((Canonical(fnIn[1]) = Canonical(fnIn[2])) <=> (fnOut[1] = fnOut[2]))

\* Two different argument objects got the same key.
C7_Witness ==
    /\ fnOut # <<>>
    /\ fnIn[1] # fnIn[2]
    /\ fnOut[1] = fnOut[2]

(***************************************************************************)
(* Properties of the chained resolvers.                                    *)
(***************************************************************************)
Chained == {i \in DOMAIN calls : calls[i].kind \in {"fsq", "ta"}}

\* The place lookup of a chained invocation returned a failure or no feature.
NotLocated(i) ==
    /\ calls[i].npc = "done"
    /\ calls[i].nomi # <<>>
    /\ (~calls[i].nomi[1].ok \/ calls[i].nomi[1].data.features = <<>>)

\* C8: if the place lookup returns a failure or a collection with no
\* features, the chained call returns a failure with the could-not-locate
\* message, sends no POI request and does not repeat the place lookup.
C8_NotLocated ==
    \A i \in Chained :
        NotLocated(i) =>
            /\ calls[i].pc = "done"
            /\ calls[i].result # <<>>
            /\ ~calls[i].result[1].ok
            /\ Len(calls[i].result[1].error) > Len(calls[i].input.place)
            /\ SubSeq(calls[i].result[1].error, 1, 1 + Len(calls[i].input.place))
                   = <<"Could not locate \"">> \o calls[i].input.place
            /\ calls[i].preq = 0
            /\ calls[i].poiReq = <<>>
            /\ calls[i].nreq <= 1

\* A chained call whose place lookup was answered by the provider with a
\* failure or with no row has returned.
C8_Witness ==
    \E i \in Chained :
        /\ NotLocated(i)
        /\ calls[i].nreq = 1
        /\ calls[i].pc = "done"

\* C9: when the credential of the POI provider is absent, a chained call
\* returns a failure at once and sends no request, neither to the geocoding
\* provider nor to the POI provider.
C9_MissingCredential ==
    \A i \in Chained :
        (IF calls[i].kind = "fsq" THEN ~env.FOURSQUARE_API_KEY
                                  ELSE ~env.TRIPADVISOR_API_KEY) =>
            /\ calls[i].pc = "done"
            /\ calls[i].result # <<>>
            /\ ~calls[i].result[1].ok
            /\ calls[i].nreq = 0
            /\ calls[i].preq = 0

\* The centre a chained invocation searches around, from the geometry of the
\* first feature of its place lookup.
CentreOf(i) ==
    LET g == calls[i].nomi[1].data.features[1].geometry
    IN  IF calls[i].kind = "fsq" THEN centroid(<<g>>) ELSE geometryCentroid(g)

\* The centre of the POI request of an invocation, as <<lng, lat>>.
RequestCentre(i) ==
    LET r == calls[i].poiReq[1]
    IN  IF calls[i].kind = "fsq" THEN <<r.ll.lng, r.ll.lat>>
        ELSE <<r.latLong.lng, r.latLong.lat>>

\* C10: a chained invocation sends its POI request only after its place
\* lookup has returned and the centroid is computed, the request is centred
\* on that centroid, and no POI request is out while the place lookup is
\* pending.
C10_Ordering ==
    \A i \in Chained :
        /\ calls[i].preq > 0 =>
              /\ calls[i].npc = "done"
              /\ calls[i].nomi # <<>>
              /\ calls[i].nomi[1].ok
              /\ calls[i].nomi[1].data.features # <<>>
              /\ CentreOf(i) # <<>>
              /\ calls[i].c = CentreOf(i)
              /\ calls[i].poiReq # <<>>
              /\ RequestCentre(i) = CentreOf(i)[1]
        /\ calls[i].npc = "fetch" => calls[i].preq = 0 /\ calls[i].poiReq = <<>>
        /\ calls[i].preq <= 1

\* A chained invocation has its POI request out.
C10_Witness ==
    \E i \in Chained : calls[i].pc = "poi" /\ calls[i].preq = 1

(***************************************************************************)
(* Results of the chained resolvers.                                       *)
(***************************************************************************)
\* The invocations that returned a success result.
Succeeded(i) ==
    /\ calls[i].pc = "done"
    /\ calls[i].result # <<>>
    /\ calls[i].result[1].ok

FeaturesOf(i) == calls[i].result[1].data.features

\* The POI features of a chained result: all but the first feature.
PoiFeaturesOf(i) == Tail(FeaturesOf(i))

IdsOf(features) == [k \in 1..Len(features) |-> features[k].properties.fsq_id]

RowIds(rows) == [k \in 1..Len(rows) |-> rows[k].fsq_id]

\* The provider rows that have coordinates and a rating of at least t.
RatedAtLeast(rows, t) ==
    SelectSeq(rows, LAMBDA r : HasCoordinates(r) /\ r.rating # <<>> /\ r.rating[1] >= t)

\* C11: when a chained call with a minimum rating t succeeds, its POI
\* features are exactly the provider's rows rated at least t, in the
\* provider's order; rows without a rating are left out.
C11_RatingFilter ==
    \A i \in DOMAIN calls :
        (calls[i].kind = "fsq" /\ Succeeded(i) /\ calls[i].input.minRating # <<>>)
            => IdsOf(PoiFeaturesOf(i))
                 = RowIds(RatedAtLeast(calls[i].poiRows, calls[i].input.minRating[1]))

\* The geometry of the place a chained invocation resolved, as the Place
\* Resolver returned it.
PlaceGeometry(i) == calls[i].nomi[1].data.features[1].geometry

IsSearchCenter(f) ==
    /\ "category" \in DOMAIN f.properties
    /\ f.properties.category = "search-center"

\* C12: the first feature of every success result of a chained resolver is
\* the search-center feature, tagged "nominatim", and its geometry is the
\* geometry the Place Resolver returned for the place (not its centroid); no
\* later feature is a search-center.
C12_SearchCenter ==
    \A i \in Chained :
        Succeeded(i)
            => /\ FeaturesOf(i) # <<>>
               /\ IsSearchCenter(FeaturesOf(i)[1])
               /\ FeaturesOf(i)[1].properties.source = "nominatim"
               /\ FeaturesOf(i)[1].geometry = PlaceGeometry(i)
               /\ \A k \in 2..Len(FeaturesOf(i)) : ~IsSearchCenter(FeaturesOf(i)[k])

\* C13: a success result of a chained call with result limit L holds at most
\* L + 1 features, whatever rows the POI provider answered with.
C13_ResultSize ==
    \A i \in DOMAIN calls :
        (calls[i].kind = "fsq" /\ Succeeded(i))
            => Len(FeaturesOf(i)) <= calls[i].input.limit + 1

\* A tagged ToolResult: a success with its data, or a failure with a
\* non-empty message.
IsToolResult(r) ==
    /\ "ok" \in DOMAIN r
    /\ r.ok => "data" \in DOMAIN r
    /\ ~r.ok => ("error" \in DOMAIN r /\ r.error # <<>>)

\* C14: no invocation of the Place Resolver or of the chained resolver ends
\* in an uncaught fault, whatever the providers answer, and every invocation
\* that has ended has returned a tagged ToolResult.
C14_UniformFailure ==
    \A i \in DOMAIN calls :
        calls[i].kind \in {"place", "fsq"}
            => /\ calls[i].pc # "fault"
               /\ calls[i].pc = "done"
                    => (calls[i].result # <<>> /\ IsToolResult(calls[i].result[1]))

\* C15: every success ToolResult carries a provenance tag, "nominatim" or
\* "poi"; the tag of a Place Resolver success is "nominatim" and the tag of
\* a chained success is the POI provider's.
C15_ProvenanceTag ==
    \A i \in DOMAIN calls :
        Succeeded(i)
            => /\ "source" \in DOMAIN calls[i].result[1]
               /\ calls[i].result[1].source \in {"nominatim", "poi"}
               /\ calls[i].kind = "place" => calls[i].result[1].source = "nominatim"
               /\ calls[i].kind \in {"fsq", "ta"} => calls[i].result[1].source = "poi"

\* C16: every feature of every success result has a source property naming
\* the provider it came from.
C16_SourceTag ==
    \A i \in DOMAIN calls :
        Succeeded(i)
            => \A k \in 1..Len(FeaturesOf(i)) :
                 /\ "source" \in DOMAIN FeaturesOf(i)[k].properties
                 /\ FeaturesOf(i)[k].properties.source
                      \in {"nominatim", "foursquare", "tripadvisor"}

HasGeometry(f) ==
    /\ "geometry" \in DOMAIN f
    /\ f.geometry # NullGeometry
    /\ "type" \in DOMAIN f.geometry
    /\ "coordinates" \in DOMAIN f.geometry

MaxRows == 3

ShapeRowsPlain ==
    { NominatimRow("n", <<>>),
      [NominatimRow("m", <<>>) EXCEPT !.lon = 9, !.lat = 8] }

ShapeRowsGeo ==
    { NominatimRow("p", <<GeoPolygon>>), NominatimRow("q", <<GeoPoint>>) }

SeqsUpTo(S, n) == UNION {[1..k -> S] : k \in 0..n}

ShapeInputs ==
    {[requested |-> TRUE, rows |-> r] : r \in SeqsUpTo(ShapeRowsPlain \cup ShapeRowsGeo, MaxRows)}
        \cup {[requested |-> FALSE, rows |-> r] : r \in SeqsUpTo(ShapeRowsPlain, MaxRows)}

InitShape ==
    /\ now = 0
    /\ CACHE = <<>>
    /\ geocodeCache = <<>>
    /\ env = [FOURSQUARE_API_KEY |-> TRUE, TRIPADVISOR_API_KEY |-> TRUE]
    /\ calls = <<>>
    /\ seq = 0
    /\ fnIn \in {<<x>> : x \in ShapeInputs}
    /\ fnOut = <<>>
    /\ NoChat

\* The rows of the answer are normalized.
ApplyToFeatureCollection ==
    /\ fnOut = <<>>
    /\ fnOut' = <<toFeatureCollection(fnIn[1].rows)>>
    /\ UNCHANGED <<now, CACHE, geocodeCache, env, calls, seq, fnIn, chatVars>>

NextShape == ApplyToFeatureCollection

SpecShape == InitShape /\ [][NextShape]_vars

MaxLimitArg == 12

LimitArgs ==
    { Args(q, l, p) :
        q \in {<<"A", "b">>, <<" ", "a">>},
        l \in {<<>>} \cup {<<n>> : n \in (0 - 2)..MaxLimitArg},
        p \in {<<>>, <<TRUE>>, <<FALSE>>} }

InitLimit ==
    /\ now = 0
    /\ CACHE = <<>>
    /\ geocodeCache = <<>>
    /\ env = [FOURSQUARE_API_KEY |-> TRUE, TRIPADVISOR_API_KEY |-> TRUE]
    /\ calls = <<>>
    /\ seq = 0
    /\ fnIn \in {<<a>> : a \in LimitArgs}
    /\ fnOut = <<>>
    /\ NoChat

\* runNominatimSearch runs up to the request it sends (or its early return).
ApplyRunNominatimSearch ==
    /\ fnOut = <<>>
    /\ fnOut' = <<runNominatimSearchStart(fnIn[1], <<>>, now, 1, 1)>>
    /\ UNCHANGED <<now, CACHE, geocodeCache, env, calls, seq, fnIn, chatVars>>

NextLimit == ApplyRunNominatimSearch

SpecLimit == InitLimit /\ [][NextLimit]_vars

\* C19: every geocoding request of the Place Resolver carries a limit
\* between 1 and 10: the caller's limit when it lies in that range, the
\* nearest end of the range when it does not, and 5 when none was passed.
C19_GeocodeLimit ==
    fnOut # <<>> =>
        \A k \in 1..Len(fnOut[1].req) :
            LET sent == fnOut[1].req[k].limit
                given == fnIn[1].limit
            IN  /\ sent \in 1..10
                /\ given = <<>> => sent = 5
                /\ (given # <<>> /\ given[1] \in 1..10) => sent = given[1]
                /\ (given # <<>> /\ given[1] < 1) => sent = 1
                /\ (given # <<>> /\ given[1] > 10) => sent = 10

\* A request was sent for a call whose limit was above 10.
C19_Witness ==
    /\ fnOut # <<>>
    /\ fnOut[1].req # <<>>
    /\ fnIn[1].limit # <<>>
    /\ fnIn[1].limit[1] > 10
    /\ fnOut[1].req[1].limit = 10

(***************************************************************************)
(* The POI request of the Foursquare chain on its own: the step of         *)
(* foursquareByPlaceTool.execute after its place lookup has returned a     *)
(* located place, for every radius the schema admits and for limits inside *)
(* and outside the schema's range.                                         *)
(***************************************************************************)
MaxPoiLimit == 52

MaxRadiusKm == 5

PoiRequestInputs ==
    { [FsqInput(<<"a", "b", " ">>, <<>>) EXCEPT !.limit = l, !.radiusKm = r] :
        l \in (0 - 2)..MaxPoiLimit, r \in 1..MaxRadiusKm }

\* The invocation at the moment its place lookup is served from the cache.
LocatedCall(inp) ==
    LET a == PlaceLookupArgs(inp.place)
        place == Success(toFeatureCollection(<<NominatimRow("g", <<GeoPolygon>>)>>), "nominatim")
        C == cacheSet(<<>>, cacheKey(a), place, CACHE_TTL_MS, 0, 1, 1)
        st == runNominatimSearchStart(a, C, 0, 2, 2)
    IN  NewCall("fsq", inp, a, st, 0, 2, <<>>)

InitPoiRequest ==
    /\ now = 0
    /\ CACHE = <<>>
    /\ geocodeCache = <<>>
    /\ env = [FOURSQUARE_API_KEY |-> TRUE, TRIPADVISOR_API_KEY |-> TRUE]
    /\ calls = <<>>
    /\ seq = 0
    /\ fnIn \in {<<i>> : i \in PoiRequestInputs}
    /\ fnOut = <<>>
    /\ NoChat

\* The chain runs from the returned place lookup to its POI request.
ApplyFsqAfterPlace ==
    /\ fnOut = <<>>
    /\ fnOut' = <<FsqAfterPlace(LocatedCall(fnIn[1]), env.FOURSQUARE_API_KEY)>>
    /\ UNCHANGED <<now, CACHE, geocodeCache, env, calls, seq, fnIn, chatVars>>

NextPoiRequest == ApplyFsqAfterPlace

SpecPoiRequest == InitPoiRequest /\ [][NextPoiRequest]_vars

\* C20: every POI nearby-search request carries a limit between 1 and 50
\* (the caller's limit, or the nearest end of the range) and a radius of
\* 1000 metres for each requested kilometre.
C20_PoiRequest ==
    fnOut # <<>> =>
        \A k \in 1..Len(fnOut[1].poiReq) :
            LET sent == fnOut[1].poiReq[k]
                given == fnIn[1]
            IN  /\ sent.limit \in 1..50
                /\ given.limit \in 1..50 => sent.limit = given.limit
                /\ given.limit < 1 => sent.limit = 1
                /\ given.limit > 50 => sent.limit = 50
                /\ sent.radius = 1000 * given.radiusKm

\* A POI request was sent for a call that asked for more than 50 results
\* within 2 km.
C20_Witness ==
    /\ fnOut # <<>>
    /\ fnIn[1].limit > 50
    /\ fnIn[1].radiusKm = 2
    /\ fnOut[1].poiReq # <<>>
    /\ fnOut[1].poiReq[1].limit = 50
    /\ fnOut[1].poiReq[1].radius = 2000

(***************************************************************************)
(* The fallback-geocode loop.  The log of an invocation lists, in order,   *)
(* its fallback lookups ("request" for one that sent a provider request,   *)
(* "hit" for one served from the address cache) and its pauses ("sleep",   *)
(* written when sleep(1100) has ended).                                    *)
(***************************************************************************)
TaCalls == {i \in DOMAIN calls : calls[i].kind = "ta"}

\* C21: within one invocation, between two fallback lookups that each sent
\* a provider request there is a pause, whatever the outcome of the first.
C21_RateEtiquette ==
    \A i \in TaCalls :
        \A p, q \in 1..Len(calls[i].log) :
            (p < q /\ calls[i].log[p] = "request" /\ calls[i].log[q] = "request")
                => \E r \in (p + 1)..(q - 1) : calls[i].log[r] = "sleep"

\* C22: a fallback lookup served from the address cache is followed by no
\* pause: the invocation never sleeps right after a hit.
C22_NoPauseAfterHit ==
    \A i \in TaCalls :
        /\ \A p \in 1..(Len(calls[i].log) - 1) :
             calls[i].log[p] = "hit" => calls[i].log[p + 1] # "sleep"
        /\ (calls[i].log # <<>> /\ calls[i].log[Len(calls[i].log)] = "hit")
             => calls[i].pc # "sleep"

\* The features of invocation i before the step are the first features of i
\* after it.
KeepsFeatures(i) ==
    /\ Len(calls'[i].features) >= Len(calls[i].features)
    /\ SubSeq(calls'[i].features, 1, Len(calls[i].features)) = calls[i].features

\* The pending address lookup of invocation i ends in this step with a
\* coordinate: the feature of its row is appended.
LookupGaveCoordinate(i) ==
    /\ Len(calls'[i].features) > Len(calls[i].features)
    /\ calls'[i].features[Len(calls[i].features) + 1].properties.location_id
         = calls[i].items[calls[i].idx].location_id

C23Step ==
    \A i \in DOMAIN calls :
        (calls[i].kind = "ta" /\ calls[i].pc = "geocode" /\ calls'[i] # calls[i]
            /\ ~LookupGaveCoordinate(i))
            => /\ EntryOf(geocodeCache', calls[i].gkey[1]) = EntryOf(geocodeCache, calls[i].gkey[1])
               /\ calls'[i].pc \in {"geocode", "sleep", "done"}
               /\ calls'[i].idx > calls[i].idx
               /\ KeepsFeatures(i)
               /\ calls'[i].pc = "done"
                    => (calls'[i].result[1].ok
                        /\ calls'[i].result[1].data.features = calls'[i].features)

\* C23: when a pending address lookup ends without a coordinate (no match,
\* non-success status or network error), nothing is cached for its key, the
\* invocation goes on with the next row keeping the features it has, and
\* when that was the last row it returns a success with those features.
C23_FailureIsolation == [][C23Step]_vars

(***************************************************************************)
(* Overlapping invocations of one cache key.                               *)
(***************************************************************************)
\* Invocations i and j have the same key, both missed the cache and sent a
\* provider request, neither was issued after the lookup of the other had
\* returned, both lookups have returned, and i wrote the cache first.
RacedBefore(i, j) ==
    /\ i # j
    /\ calls[i].key = calls[j].key
    /\ calls[i].nreq = 1 /\ calls[j].nreq = 1
    /\ i \notin calls[j].before /\ j \notin calls[i].before
    /\ calls[i].npc = "done" /\ calls[j].npc = "done"
    /\ calls[i].stored # <<>> /\ calls[j].stored # <<>>
    /\ calls[i].stored[1].ins < calls[j].stored[1].ins

\* C24 as stated: whatever the provider answered to the two requests, the
\* second writer leaves the key with a value equal to the one the first
\* writer stored.
C24_EquivalentValue ==
    \A i \in Lookups, j \in Lookups :
        RacedBefore(i, j) => calls[j].stored[1].value = calls[i].stored[1].value

\* C24 amended: each of the two invocations stores the result built from its
\* own provider answer, so the second writer leaves the key with its own
\* result, and that value equals the one the first writer stored exactly
\* when the two lookups returned the same result.
C24_LastWriterWins ==
    \A i \in Lookups, j \in Lookups :
        RacedBefore(i, j)
            => /\ calls[i].stored[1].value = calls[i].nomi[1]
               /\ calls[j].stored[1].value = calls[j].nomi[1]
               /\ calls[j].stored[1].wid = j
               /\ (calls[j].stored[1].value = calls[i].stored[1].value)
                    <=> (calls[j].nomi = calls[i].nomi)

\* Two overlapping invocations got different answers from the provider: the
\* first a 503, the second a success, which replaced the cached failure.
C24_Witness ==
    \E i \in Lookups, j \in Lookups :
        /\ RacedBefore(i, j)
        /\ calls[i].got = <<503>>
        /\ calls[j].got = <<200>>
        /\ calls[j].stored[1].value # calls[i].stored[1].value

(***************************************************************************)
(* Invocations suspended at a provider request.                            *)
(***************************************************************************)
\* What a cache may become while an invocation with key k runs up to its
\* provider request at time t: it stays as it is, or loses the entry of k
\* when that entry has expired.
OnlyExpiredDropped(C, D, k, t) ==
    \/ D = C
    \/ /\ Has(C, k)
       /\ t > ExpiresOf(C, k)
       /\ D = MapDelete(C, k)

\* Invocation i is issued in this step and is left waiting for the geocoding
\* provider.
SuspendedAtLookup(i) ==
    /\ i \in DOMAIN calls'
    /\ i \notin DOMAIN calls
    /\ calls'[i].kind \in {"place", "fsq"}
    /\ calls'[i].npc = "fetch"

\* In this step invocation i calls geocodeAddressWithCache, which is left
\* waiting for the geocoding provider.
SuspendedAtGeocode(i) ==
    /\ i \in DOMAIN calls
    /\ calls[i].kind = "ta"
    /\ calls'[i].pc = "geocode"
    /\ calls'[i].greq = calls[i].greq + 1

C25Step ==
    /\ \A i \in DOMAIN calls' :
         SuspendedAtLookup(i)
            => /\ OnlyExpiredDropped(CACHE, CACHE', calls'[i].key, now)
               /\ geocodeCache' = geocodeCache
    /\ \A i \in DOMAIN calls :
         SuspendedAtGeocode(i)
            => /\ OnlyExpiredDropped(geocodeCache, geocodeCache', calls'[i].gkey[1], now)
               /\ CACHE' = CACHE

\* C25: an invocation that runs up to its provider request and is suspended
\* there has added no cache entry, overwritten none and removed none that had
\* not expired; if it is never resumed that is all it ever does.
C25_Abandoned == [][C25Step]_vars

\* An invocation is waiting for the geocoding provider; when it was issued
\* its key had an entry in the cache, which had expired and is gone.
C25_Witness ==
    \E i \in Lookups :
        /\ calls[i].npc = "fetch"
        /\ calls[i].seen # 0
        /\ ~Has(CACHE, calls[i].key)

(***************************************************************************)
(* The centroid functions on their own: centroid of the Foursquare chain   *)
(* and geometryCentroid of the TripAdvisor chain applied to one geometry,  *)
(* and the step of the Foursquare chain after a place lookup that returned *)
(* a feature with that geometry.  Coordinates are exact, so the results    *)
(* are those of the formulas without floating-point rounding.              *)
(***************************************************************************)
MaxRingLen == 4

MaxMembers == 2

CentroidPoints == {<<0, 0>>, <<4, 0>>, <<0, 4>>, <<4, 4>>, <<1, 1>>, <<2, 0>>}

CentroidRings == SeqsUpTo(CentroidPoints, MaxRingLen)

\* Outer rings of the members of a MultiPolygon: a triangle in both winding
\* directions, a second triangle, a collinear ring, a ring of two points and
\* the empty ring.
MemberRings ==
    { << <<0, 0>>, <<4, 0>>, <<0, 4>> >>,
      << <<0, 0>>, <<0, 4>>, <<4, 0>> >>,
      << <<4, 4>>, <<4, 0>>, <<1, 1>> >>,
      << <<4, 4>>, <<1, 1>>, <<4, 0>> >>,
      << <<0, 0>>, <<2, 0>>, <<4, 0>> >>,
      << <<1, 1>>, <<4, 4>> >>,
      <<>> }

MemberPolygons ==
    {<<r>> : r \in MemberRings}
        \cup { << << <<0, 0>>, <<4, 0>>, <<0, 4>> >>, << <<1, 1>>, <<2, 0>>, <<1, 1>> >> >>,
               << << <<0, 0>>, <<2, 0>>, <<4, 0>> >>, << <<1, 1>>, <<4, 4>> >> >>,
               <<>> }

CentroidGeometries ==
    {[type |-> "Point", coordinates |-> p] : p \in CentroidPoints \cup {<<>>}}
        \cup {[type |-> "Polygon", coordinates |-> <<r>>] : r \in CentroidRings}
        \cup {[type |-> "Polygon", coordinates |-> <<>>]}
        \cup {[type |-> "MultiPolygon", coordinates |-> ps] : ps \in SeqsUpTo(MemberPolygons, MaxMembers)}
        \cup {[type |-> t, coordinates |-> r] :
                t \in {"LineString", "MultiPoint"}, r \in SeqsUpTo({<<0, 0>>, <<4, 4>>}, MaxMembers)}
        \cup {[type |-> "MultiLineString", coordinates |-> ls] :
                ls \in {<<>>, << << <<0, 0>>, <<4, 0>> >>, << <<4, 4>> >> >>}}
        \cup {GeoOther}

\* The invocation at the moment its place lookup is served from the cache
\* with a feature of geometry g.
LocatedCallAt(inp, g) ==
    LET a == PlaceLookupArgs(inp.place)
        place == Success(toFeatureCollection(<<NominatimRow("g", <<g>>)>>), "nominatim")
        C == cacheSet(<<>>, cacheKey(a), place, CACHE_TTL_MS, 0, 1, 1)
        st == runNominatimSearchStart(a, C, 0, 2, 2)
    IN  NewCall("fsq", inp, a, st, 0, 2, <<>>)

InitCentroid ==
    /\ now = 0
    /\ CACHE = <<>>
    /\ geocodeCache = <<>>
    /\ env = [FOURSQUARE_API_KEY |-> TRUE, TRIPADVISOR_API_KEY |-> TRUE]
    /\ calls = <<>>
    /\ seq = 0
    /\ fnIn \in {<<>>} \cup {<<g>> : g \in CentroidGeometries}
    /\ fnOut = <<>>
    /\ NoChat

\* The centroid of the geometry (absent when fnIn is empty) is computed by
\* both functions, and the Foursquare chain takes its step after the place
\* lookup.
ApplyCentroid ==
    /\ fnOut = <<>>
    /\ fnOut' = << [ centroid |-> centroid(fnIn),
                     geometryCentroid |-> IF fnIn = <<>> THEN <<>> ELSE geometryCentroid(fnIn[1]),
                     chain |-> IF fnIn = <<>> THEN <<>>
                               ELSE <<FsqAfterPlace(LocatedCallAt(FsqInput(<<"a", "b", " ">>, <<>>),
                                                                  fnIn[1]),
                                                    env.FOURSQUARE_API_KEY)>> ] >>
    /\ UNCHANGED <<now, CACHE, geocodeCache, env, calls, seq, fnIn, chatVars>>

NextCentroid == ApplyCentroid

SpecCentroid == InitCentroid /\ [][NextCentroid]_vars

AsRationals(p) == [k \in 1..Len(p) |-> Rat(p[k], 1)]

\* C26: the centroid of a Point is the coordinates of the point, unchanged,
\* for both centroid functions.
C26_PointIdentity ==
    (fnOut # <<>> /\ fnIn # <<>> /\ fnIn[1].type = "Point")
        => /\ fnOut[1].centroid = <<AsRationals(fnIn[1].coordinates)>>
           /\ fnOut[1].geometryCentroid = <<AsRationals(fnIn[1].coordinates)>>

\* The centroid of the Point [4, 0] was computed.
C26_Witness ==
    /\ fnOut # <<>>
    /\ fnIn = <<[type |-> "Point", coordinates |-> <<4, 0>>]>>
    /\ fnOut[1].centroid = << <<Rat(4, 1), Rat(0, 1)>> >>

\* The side of the line from a to b on which s lies: positive on the left,
\* zero on the line, for a position s and for a rational point p.
SideOf(a, b, s) == (b[1] - a[1]) * (s[2] - a[2]) - (b[2] - a[2]) * (s[1] - a[1])

SideOfRat(a, b, p) ==
    (b[1] - a[1]) * (p[2].n - a[2] * p[2].d) * p[1].d
        - (b[2] - a[2]) * (p[1].n - a[1] * p[1].d) * p[2].d

Vertices(ring) == {ring[k] : k \in 1..Len(ring)}

\* p lies in the convex hull of the vertices of the ring: it is on the side
\* of the vertices of every line through two vertices that has all vertices
\* on one side.
InConvexHull(p, ring) ==
    \A a \in Vertices(ring), b \in Vertices(ring) :
        (a # b /\ \A s \in Vertices(ring) : SideOf(a, b, s) >= 0)
            => SideOfRat(a, b, p) >= 0

\* C27: for every ring with a non-zero signed area, simple or not, the
\* centroid that either function computes from the signed-area formula lies
\* in the convex hull of the ring.
C27_ConvexHullBound ==
    (fnOut # <<>> /\ fnIn # <<>> /\ fnIn[1].type = "Polygon" /\ fnIn[1].coordinates # <<>>
        /\ Len(fnIn[1].coordinates[1]) >= 3
        /\ RingSums(fnIn[1].coordinates[1]).a # 0)
        => /\ fnOut[1].centroid # <<>>
           /\ InConvexHull(fnOut[1].centroid[1], fnIn[1].coordinates[1])
           /\ fnOut[1].geometryCentroid # <<>>
           /\ InConvexHull(fnOut[1].geometryCentroid[1], fnIn[1].coordinates[1])

\* The geometry has no coordinate: its coordinates array is empty, or holds
\* only empty rings or polygons.
EmptyCoordinates(g) ==
    \/ g.coordinates = <<>>
    \/ g.type = "Polygon" /\ Flat(g.coordinates) = <<>>
    \/ g.type = "MultiPolygon" /\ Flat(Flat(g.coordinates)) = <<>>

NoCentroidCase ==
    \/ fnIn = <<>>
    \/ fnIn[1].type \notin {"Point", "Polygon", "MultiPolygon"}
    \/ EmptyCoordinates(fnIn[1])

\* C28: when the geometry of the first feature is of an unsupported kind,
\* absent, or has empty coordinates, no centroid is produced, and the chained
\* call returns the no-usable-centroid failure without a POI request.
C28_NoUsableCentroid ==
    (fnOut # <<>> /\ NoCentroidCase)
        => /\ fnOut[1].centroid = <<>>
           /\ \A k \in DOMAIN fnOut[1].chain :
                /\ fnOut[1].chain[k].pc = "done"
                /\ fnOut[1].chain[k].result = <<NoUsableCentroid>>
                /\ fnOut[1].chain[k].preq = 0
                /\ fnOut[1].chain[k].poiReq = <<>>

\* The Polygon given has an outer ring with at least one coordinate and a
\* signed area of zero.
DegeneratePolygon ==
    /\ fnOut # <<>> /\ fnIn # <<>> /\ fnIn[1].type = "Polygon"
    /\ OuterRing(fnIn[1].coordinates) # <<>>
    /\ RingSums(OuterRing(fnIn[1].coordinates)).a = 0

\* The centroid of a degenerate ring: the first coordinate of a ring of fewer
\* than 3 points, the arithmetic mean of the coordinates of a longer one.
DegenerateCentroid(ring) == IF Len(ring) < 3 THEN FirstOf(ring) ELSE MeanOf(ring)

\* C29: the centroid of a Polygon whose outer ring has zero signed area is
\* the arithmetic mean of the coordinates of the ring, or its first
\* coordinate when it has fewer than 3 points, for both centroid functions;
\* for a ring of identical points it is that point.
C29_DegeneratePolygon ==
    DegeneratePolygon
        => LET ring == OuterRing(fnIn[1].coordinates)
           IN  /\ fnOut[1].centroid = DegenerateCentroid(ring)
               /\ fnOut[1].geometryCentroid = DegenerateCentroid(ring)
               /\ (\A k \in DOMAIN ring : ring[k] = ring[1])
                    => /\ fnOut[1].centroid = <<AsRationals(ring[1])>>
                       /\ fnOut[1].geometryCentroid = <<AsRationals(ring[1])>>

\* The sums of a weighted average over the outer rings of the member
\* polygons: the total of the absolute areas (doubled) and the ring sums
\* taken with the sign that makes each area positive.
RECURSIVE AbsAreaSums(_)
AbsAreaSums(polys) ==
    IF polys = <<>> THEN [a |-> 0, cx |-> 0, cy |-> 0]
    ELSE LET s == RingSums(OuterRing(polys[1]))
             sgn == IF s.a < 0 THEN 0 - 1 ELSE 1
             rest == AbsAreaSums(Tail(polys))
         IN  [a |-> sgn * s.a + rest.a, cx |-> sgn * s.cx + rest.cx, cy |-> sgn * s.cy + rest.cy]

\* The centroid of a MultiPolygon: the average of the centroids of the outer
\* rings weighted by absolute area, or the mean of every coordinate of every
\* polygon when the total area is zero.
MultiPolygonCentroid(polys) ==
    LET s == AbsAreaSums(polys)
    IN  IF s.a = 0 THEN MeanOf(Flat(Flat(polys)))
        ELSE << <<Rat(s.cx, 3 * s.a), Rat(s.cy, 3 * s.a)>> >>

ReverseRing(ring) == [k \in 1..Len(ring) |-> ring[Len(ring) + 1 - k]]

\* The MultiPolygon with the outer ring of its member k in the other winding
\* direction.
Rewound(g, k) ==
    [g EXCEPT !.coordinates[k] =
        IF @ = <<>> THEN @ ELSE [@ EXCEPT ![1] = ReverseRing(@)]]

\* C30: the centroid of a MultiPolygon is the average of the outer-ring
\* centroids of its members weighted by absolute area, or the mean of every
\* coordinate when the total area is zero, for both centroid functions, and
\* it is the same when the outer ring of a member is wound the other way.
C30_MultiPolygonCentroid ==
    (fnOut # <<>> /\ fnIn # <<>> /\ fnIn[1].type = "MultiPolygon")
        => LET g == fnIn[1]
           IN  /\ fnOut[1].centroid = MultiPolygonCentroid(g.coordinates)
               /\ fnOut[1].geometryCentroid = MultiPolygonCentroid(g.coordinates)
               /\ \A k \in DOMAIN g.coordinates :
                    /\ centroid(<<Rewound(g, k)>>) = fnOut[1].centroid
                    /\ geometryCentroid(Rewound(g, k)) = fnOut[1].geometryCentroid

\* Every coordinate of a MultiPoint, LineString or MultiLineString.
LineCoordinates(g) ==
    IF g.type = "MultiLineString" THEN Flat(g.coordinates) ELSE g.coordinates

LineGeometry ==
    /\ fnOut # <<>> /\ fnIn # <<>>
    /\ fnIn[1].type \in {"MultiPoint", "LineString", "MultiLineString"}
    /\ LineCoordinates(fnIn[1]) # <<>>

\* C31: the centroid of a non-empty MultiPoint, LineString or MultiLineString
\* is the arithmetic mean of all its coordinates, for both centroid functions,
\* and the chained call on a place with such a geometry goes on to its POI
\* request instead of failing for want of a centroid.
C31_LineCentroid ==
    LineGeometry
        => /\ fnOut[1].centroid = MeanOf(LineCoordinates(fnIn[1]))
           /\ fnOut[1].geometryCentroid = MeanOf(LineCoordinates(fnIn[1]))
           /\ fnOut[1].chain[1].result # <<NoUsableCentroid>>
           /\ fnOut[1].chain[1].pc = "poi"

(***************************************************************************)
(* components/Chat.tsx (MapCreator): collectCoords, the coordinates of a   *)
(* feature collection that the map fits its bounds to.                     *)
(***************************************************************************)
\* The body of the loop for one feature: what its geometry g pushes to pts.
GeometryCoords(g) ==
    IF g = NullGeometry THEN <<>>
    ELSE CASE g.type = "Point" -> <<g.coordinates>>
           [] g.type \in {"MultiPoint", "LineString"} -> g.coordinates
           [] g.type \in {"MultiLineString", "Polygon"} -> Flat(g.coordinates)
           [] g.type = "MultiPolygon" -> Flat(Flat(g.coordinates))
           [] OTHER -> <<>>

RECURSIVE collectCoords(_)
collectCoords(features) ==
    IF features = <<>> THEN <<>>
    ELSE GeometryCoords(features[1].geometry) \o collectCoords(Tail(features))

MaxFeatures == 2

\* Geometries of the six kinds, with several rings, lines and members, with
\* none, and a Point whose coordinates array is empty; a geometry of another
\* kind; and the null geometry of a feature without one.
CollectGeometries ==
    { [type |-> "Point", coordinates |-> <<2, 1>>],
      [type |-> "Point", coordinates |-> <<>>],
      [type |-> "MultiPoint", coordinates |-> << <<0, 0>>, <<4, 4>> >>],
      [type |-> "LineString", coordinates |-> << <<4, 0>>, <<0, 0>>, <<0, 4>> >>],
      [type |-> "LineString", coordinates |-> <<>>],
      [type |-> "MultiLineString",
       coordinates |-> << << <<0, 0>>, <<4, 0>> >>, << <<4, 4>> >> >>],
      [type |-> "Polygon",
       coordinates |-> << << <<0, 0>>, <<4, 0>>, <<0, 4>> >>, << <<1, 1>>, <<2, 0>>, <<1, 1>> >> >>],
      [type |-> "Polygon", coordinates |-> <<>>],
      [type |-> "MultiPolygon",
       coordinates |-> << << << <<0, 0>>, <<4, 0>>, <<0, 4>> >>, << <<1, 1>>, <<2, 0>> >> >>,
                          << << <<4, 4>>, <<4, 0>>, <<1, 1>> >> >> >>],
      GeoOther, NullGeometry }

CollectFeatures ==
    {[type |-> "Feature", properties |-> [name |-> "n"], geometry |-> g] : g \in CollectGeometries}

InitCollect ==
    /\ now = 0
    /\ CACHE = <<>>
    /\ geocodeCache = <<>>
    /\ env = [FOURSQUARE_API_KEY |-> TRUE, TRIPADVISOR_API_KEY |-> TRUE]
    /\ calls = <<>>
    /\ seq = 0
    /\ fnIn \in {<<[type |-> "FeatureCollection", features |-> fs]>> :
                    fs \in SeqsUpTo(CollectFeatures, MaxFeatures)}
    /\ fnOut = <<>>
    /\ NoChat

ApplyCollectCoords ==
    /\ fnOut = <<>>
    /\ fnOut' = <<collectCoords(fnIn[1].features)>>
    /\ UNCHANGED <<now, CACHE, geocodeCache, env, calls, seq, fnIn, chatVars>>

NextCollect == ApplyCollectCoords

SpecCollect == InitCollect /\ [][NextCollect]_vars

\* The positions below a coordinates array nested depth levels deep, in
\* order; at depth 0 the array is itself the position, or holds none.
RECURSIVE PositionsAt(_, _)
PositionsAt(x, depth) ==
    IF depth = 0 THEN (IF x = <<>> THEN <<>> ELSE <<x>>)
    ELSE IF x = <<>> THEN <<>>
    ELSE PositionsAt(x[1], depth - 1) \o PositionsAt(Tail(x), depth)

KindDepth(type) ==
    CASE type = "Point" -> 0
      [] type \in {"MultiPoint", "LineString"} -> 1
      [] type \in {"MultiLineString", "Polygon"} -> 2
      [] type = "MultiPolygon" -> 3

SixKinds == {"Point", "MultiPoint", "LineString", "MultiLineString", "Polygon", "MultiPolygon"}

RECURSIVE AllPositions(_)
AllPositions(features) ==
    IF features = <<>> THEN <<>>
    ELSE LET g == features[1].geometry
         IN  (IF g = NullGeometry \/ g.type \notin SixKinds THEN <<>>
              ELSE PositionsAt(g.coordinates, KindDepth(g.type)))
                 \o AllPositions(Tail(features))

\* C32: collectCoords returns the coordinates of the geometries of the
\* features, of all six kinds and all rings, feature after feature and in the
\* order they have within each feature; a feature without geometry
\* contributes none, so there are as many as the collection has coordinates.
C32_CollectCoordinates ==
    fnOut # <<>>
        => /\ fnOut[1] = AllPositions(fnIn[1].features)
           /\ Len(fnOut[1]) = Len(AllPositions(fnIn[1].features))

\* In this step every invocation whose place lookup returns and writes a key
\* that is present in the cache leaves the entries of all other keys in
\* place, and the cache no smaller.
C33Step ==
    \A i \in Answered :
        Has(CACHE, calls[i].key) =>
            /\ Len(CACHE') >= Len(CACHE)
            /\ \A n \in Evicted : CACHE[n].k = calls[i].key

\* C33: a cache write for a key that is already present removes the entry of
\* no other key and does not shrink the cache, also when the cache is full:
\* only the insertion of a new key evicts.
C33_EvictOnInsertOnly == [][C33Step]_vars

\* The lookup of the invocation issued in this step: it is served from the
\* cache only by an entry that has not expired, and an expired entry of its
\* key is gone from the cache afterwards while the lookup is a miss.
C35Step ==
    \A k \in DOMAIN Issued :
        LET c == Issued[k]
            n == IndexOf(CACHE, c.key)
        IN  /\ c.hit => (n # 0 /\ now <= CACHE[n].expires /\ c.nomi = <<CACHE[n].value>>)
            /\ (n # 0 /\ now > CACHE[n].expires)
                  => /\ ~c.hit
                     /\ \A m \in 1..Len(CACHE') : CACHE'[m].ins # CACHE[n].ins

\* C35: a cache lookup never returns an entry whose expiry time has passed;
\* an expired entry found by a lookup is removed and the lookup is a miss.
C35_NoStaleRead == [][C35Step]_vars

\* An invocation found the entry of its key expired and sent a request to the
\* provider.
C35_Witness ==
    \E i \in DOMAIN calls :
        /\ ~calls[i].pre
        /\ calls[i].kind = "place"
        /\ calls[i].seen # 0
        /\ ~calls[i].hit
        /\ calls[i].nreq = 1
        /\ calls[i].issuedAt > FAILURE_TTL_MS

\* The time to live with which invocation w wrote its result: that of the
\* provider's answer, or the default one for the failure it returned without
\* a request.
WrittenTtl(w) == IF w.got = <<>> THEN CACHE_TTL_MS ELSE NominatimTtl(w.got[1])

\* The invocation issued in this step, when it is served from the cache,
\* leaves the cache as it was, and the entry that serves it still expires at
\* the time its writer set: the time of the write plus the time to live.
C36Step ==
    \A k \in DOMAIN Issued :
        LET c == Issued[k]
            e == CACHE[IndexOf(CACHE, c.key)]
        IN  c.hit =>
              /\ CACHE' = CACHE
              /\ e.wid \in DOMAIN calls =>
                    /\ e.at = calls[e.wid].retAt
                    /\ e.expires = e.at + WrittenTtl(calls[e.wid])
                    /\ now <= e.at + WrittenTtl(calls[e.wid])

\* C36: a cache hit leaves the cache unchanged (no entry added, removed or
\* reordered, no expiry extended), so an entry written at time t with a time
\* to live d is served until t + d at most, however often it is read.
C36_AbsoluteExpiry == [][C36Step]_vars

\* An invocation was served, some time after the write, the entry that an
\* earlier invocation had written.
C36_Witness ==
    \E i \in DOMAIN calls :
        /\ ~calls[i].pre
        /\ calls[i].hit
        /\ calls[i].wid \in DOMAIN calls
        /\ calls[i].issuedAt > calls[calls[i].wid].retAt

IsSearchCenterFeature(f) ==
    "category" \in DOMAIN f.properties /\ f.properties.category = "search-center"

\* C37: once the chained resolver has its place lookup, the cache entry of
\* the place, while no other writer has replaced it, holds the collection the
\* Place Resolver stored, also after the chained call has completed with the
\* search centre prepended to its own result; and a Place Resolver call never
\* returns a search-centre feature.
C37_CachedPlaceIntact ==
    /\ \A i \in DOMAIN calls :
         (calls[i].kind = "fsq" /\ calls[i].stored # <<>>) =>
            LET n == IndexOf(CACHE, calls[i].key)
            IN  (n # 0 /\ CACHE[n].wid = calls[i].stored[1].wid)
                    => CACHE[n].value = calls[i].stored[1].value
    /\ \A i \in DOMAIN calls :
         (calls[i].kind = "place" /\ calls[i].result # <<>> /\ calls[i].result[1].ok) =>
            \A k \in DOMAIN calls[i].result[1].data.features :
                ~IsSearchCenterFeature(calls[i].result[1].data.features[k])

\* A chained call has completed with the search centre in front of its
\* result, and the cache still holds the entry of its place lookup.
C37_Witness ==
    \E i \in DOMAIN calls :
        /\ calls[i].kind = "fsq"
        /\ calls[i].pc = "done"
        /\ calls[i].result # <<>>
        /\ calls[i].result[1].ok
        /\ IsSearchCenterFeature(calls[i].result[1].data.features[1])
        /\ Has(CACHE, calls[i].key)
        /\ EntryOf(CACHE, calls[i].key) = calls[i].stored

\* The provider answered the place lookup of invocation i with no row.
EmptyAnswer(i) ==
    /\ calls[i].got = <<200>>
    /\ calls[i].nomi # <<>>
    /\ calls[i].nomi[1].ok
    /\ calls[i].nomi[1].data.features = <<>>

\* C38: a provider answer without rows is cached as a success for 10
\* minutes, and a chained call for that place issued within the 10 minutes,
\* the entry still being the key's, fails with the could-not-locate message
\* without a request to either provider.
C38_EmptyAnswerCached ==
    \A i \in Lookups :
        EmptyAnswer(i) =>
            /\ calls[i].stored # <<>>
            /\ calls[i].stored[1].value.ok
            /\ calls[i].stored[1].value.data.features = <<>>
            /\ calls[i].stored[1].expires = calls[i].retAt + 10 * 60 * 1000
            /\ \A j \in Lookups :
                 ( /\ calls[j].kind = "fsq"
                   /\ Later(i, j)
                   /\ calls[j].seen = i
                   /\ calls[j].issuedAt <= calls[i].retAt + 10 * 60 * 1000 )
                 => /\ calls[j].pc = "done"
                    /\ calls[j].result = <<CouldNotLocate(calls[j].input.place)>>
                    /\ calls[j].nreq = 0
                    /\ calls[j].preq = 0

\* The provider found no row for a place, and a chained call for the place
\* issued more than 2 minutes later failed without a request.
C38_Witness ==
    \E i \in Lookups, j \in Lookups :
        /\ EmptyAnswer(i)
        /\ calls[j].kind = "fsq"
        /\ Later(i, j)
        /\ calls[j].seen = i
        /\ calls[j].issuedAt > calls[i].retAt + 2 * 60 * 1000
        /\ calls[j].result = <<CouldNotLocate(calls[j].input.place)>>
        /\ calls[j].nreq = 0

(***************************************************************************)
(* Both chained resolvers from empty caches, with every pending network     *)
(* request eventually answered and every sleep eventually over.            *)
(***************************************************************************)
LiveChains ==
    /\ InitCold
    /\ [][NextChains]_vars
    /\ WF_vars(NominatimRespond)
    /\ WF_vars(FsqRespond)
    /\ WF_vars(TaPlaceRespond)
    /\ WF_vars(TaRespond)
    /\ WF_vars(GeocodeRespond)
    /\ WF_vars(TaWake)

\* The number of entries of a log that are among the given kinds.
RECURSIVE CountOf(_, _)
CountOf(log, kinds) ==
    IF log = <<>> THEN 0
    ELSE (IF log[1] \in kinds THEN 1 ELSE 0) + CountOf(Tail(log), kinds)

\* The fallback loop of every TripAdvisor invocation has made at most one
\* lookup and at most one pause per POI row, and an invocation that returned
\* its collection has gone through all rows.
LoopBounded ==
    \A i \in DOMAIN calls :
        calls[i].kind = "ta" =>
            /\ CountOf(calls[i].log, {"request", "hit"}) <= Len(calls[i].items)
            /\ CountOf(calls[i].log, {"sleep"}) <= Len(calls[i].items)
            /\ calls[i].idx <= Len(calls[i].items) + 1
            /\ (calls[i].pc = "done" /\ calls[i].items # <<>>)
                    => calls[i].idx = Len(calls[i].items) + 1

\* C39: with every network request eventually answered, every invocation of
\* the Place Resolver and of the chained resolvers eventually returns a
\* result, and the fallback loop makes at most one lookup and one pause per
\* POI row and ends after the last row.
C39_Termination ==
    /\ \A i \in 1..MaxCalls :
         (i \in DOMAIN calls) ~> (i \in DOMAIN calls /\ calls[i].pc = "done"
                                     /\ calls[i].result # <<>>)
    /\ []LoopBounded

(***************************************************************************)
(* The chat page (components/Chat.tsx): the Chat component's tool-result   *)
(* effect and the MapCreator component's initialisation effect.  A         *)
(* message is [id, role, parts]; a part is [type, state, output,           *)
(* toolCallId] with state, output and toolCallId optional.  An event is    *)
(* [type, detail] and carries the id of the call it was dispatched for.    *)
(* window.dispatchEvent is synchronous: the listeners registered at that   *)
(* moment run inside the call, and the window keeps nothing for later.     *)
(***************************************************************************)
MaxToolCalls == 2
MaxTurns == 1
MaxDeltas == 1

TextPart == [type |-> "text", state |-> <<>>, output |-> <<>>, toolCallId |-> <<>>]

WelcomeMessage == [id |-> <<"welcome">>, role |-> "assistant", parts |-> <<TextPart>>]

\* The tools of the chat route (app/api/chat/route.ts) as part types.
ToolPartTypes == {"tool-nominatimSearch", "tool-tripAdvisorByPlace"}

ChatCollection == [type |-> "FeatureCollection", features |-> <<>>]

\* What a tool of the chat route returns: a failure or its success, which
\* names its source for the Place Resolver and no source for the
\* TripAdvisor chain.
ToolOutputs(type) ==
    {Failure(<<"could not locate">>),
     IF type = "tool-nominatimSearch" THEN Success(ChatCollection, "nominatim")
     ELSE [ok |-> TRUE, data |-> ChatCollection]}

\* type.startsWith("tool-") || type === "tool-invocation" || type === "dynamic-tool"
LooksLikeTool(type) == type \in ToolPartTypes \cup {"tool-invocation", "dynamic-tool"}

\* state.includes("output")
OutputStates == {"output-available", "output-error"}

CallIdOf(m, part) ==
    IF part.toolCallId # <<>> THEN part.toolCallId[1] ELSE m.id \o <<part.type>>

EventOf(output, callId) ==
    [type   |-> IF "source" \in DOMAIN output /\ output.source = "nominatim"
                THEN "nominatim-tool-complete"
                ELSE "fsq-tool-complete",
     detail |-> output.data,
     callId |-> callId]

\* The inner loop of the effect over the parts k.. of message m.
RECURSIVE EffectParts(_, _, _)
EffectParts(m, k, acc) ==
    IF k > Len(m.parts) THEN acc
    ELSE LET part   == m.parts[k]
             callId == CallIdOf(m, part)
             fresh  == /\ LooksLikeTool(part.type)
                       /\ part.state # <<>>
                       /\ part.state[1] \in OutputStates
                       /\ part.output # <<>>
                       /\ callId \notin acc.processedIds
             output == part.output[1]
             sends  == output.ok /\ output.data.type = "FeatureCollection"
         IN  EffectParts(m, k + 1,
                 IF ~fresh THEN acc
                 ELSE [processedIds |-> acc.processedIds \cup {callId},
                       events |-> IF sends
                                  THEN Append(acc.events, EventOf(output, callId))
                                  ELSE acc.events])

\* The outer loop of the effect over the messages j.. of the list.
RECURSIVE EffectMessages(_, _, _)
EffectMessages(msgs, j, acc) ==
    IF j > Len(msgs) THEN acc
    ELSE EffectMessages(msgs, j + 1,
             IF msgs[j].role # "assistant" THEN acc
             ELSE EffectParts(msgs[j], 1, acc))

\* The effect run over the whole list with an empty set of processed ids.
ToolResultEffectAgain(msgs, processed) ==
    EffectMessages(msgs, 1, [processedIds |-> {}, events |-> <<>>])

\* The tool-result effect: the processed ids after the run and the events
\* it dispatches, in order.
ToolResultEffect(msgs, processed) ==
    EffectMessages(msgs, 1, [processedIds |-> processed, events |-> <<>>])

\* The map has registered its two listeners.
Listening(type) ==
    /\ mapInit = "listening"
    /\ type \in {"nominatim-tool-complete", "fsq-tool-complete"}

ToolPositions(msgs) ==
    UNION {{<<j, k>> : k \in {n \in DOMAIN msgs[j].parts :
                                  LooksLikeTool(msgs[j].parts[n].type)}} :
           j \in DOMAIN msgs}

TextPositions(msgs) ==
    UNION {{<<j, k>> : k \in {n \in DOMAIN msgs[j].parts :
                                  msgs[j].parts[n].type = "text"}} :
           j \in {i \in DOMAIN msgs : msgs[i].id # <<"welcome">>
                                      /\ msgs[i].role = "assistant"}}

\* The streamed response adds a part to the assistant message of the turn.
AppendPart(msgs, part) ==
    LET n == Len(msgs)
    IN  IF msgs[n].role = "assistant" /\ n > 1
        THEN [msgs EXCEPT ![n].parts = Append(@, part)]
        ELSE Append(msgs, [id |-> <<"assistant", n>>, role |-> "assistant",
                           parts |-> <<part>>])

\* useChat publishes a new message list; the component renders and the
\* effect runs over the list, dispatching to the window.
SetMessages(msgs) ==
    LET run == ToolResultEffect(msgs, processedIds)
    IN  /\ messages' = msgs
        /\ processedIds' = run.processedIds
        /\ dispatched' = dispatched \o run.events
        /\ handled' = handled \o SelectSeq(run.events, LAMBDA e : Listening(e.type))
        /\ UNCHANGED <<now, CACHE, geocodeCache, env, calls, seq, fnIn, fnOut, mapInit>>

SendMessage ==
    /\ messages # <<>>
    /\ messages[Len(messages)].role = "assistant"
    /\ Cardinality({j \in DOMAIN messages : messages[j].role = "user"}) < MaxTurns
    /\ SetMessages(Append(messages, [id |-> <<"user", Len(messages)>>, role |-> "user",
                                     parts |-> <<TextPart>>]))

ToolCallStarts ==
    /\ Len(messages) >= 2
    /\ Cardinality(ToolPositions(messages)) < MaxToolCalls
    /\ \E type \in ToolPartTypes :
          SetMessages(AppendPart(messages,
              [type |-> type, state |-> <<"input-available">>, output |-> <<>>,
               toolCallId |-> <<<<"call", Cardinality(ToolPositions(messages)) + 1>>>>]))

ToolCallEnds ==
    \E pos \in ToolPositions(messages) :
       /\ messages[pos[1]].parts[pos[2]].state = <<"input-available">>
       /\ \/ \E output \in ToolOutputs(messages[pos[1]].parts[pos[2]].type) :
                SetMessages([messages EXCEPT
                    ![pos[1]].parts[pos[2]].state = <<"output-available">>,
                    ![pos[1]].parts[pos[2]].output = <<output>>])
          \/ SetMessages([messages EXCEPT
                    ![pos[1]].parts[pos[2]].state = <<"output-error">>])

TextDelta ==
    /\ Len(messages) >= 2
    /\ Cardinality(TextPositions(messages)) < MaxDeltas
    /\ SetMessages(AppendPart(messages, TextPart))

\* The style request of the map's initialisation answers: the map is
\* created and the listeners are registered.
StyleLoaded ==
    /\ mapInit = "fetching"
    /\ mapInit' = "listening"
    /\ UNCHANGED <<now, CACHE, geocodeCache, env, calls, seq, fnIn, fnOut,
                   messages, processedIds, dispatched, handled>>

\* The style request fails or answers with an error status: the
\* initialisation throws before the map is created.
StyleFailed ==
    /\ mapInit = "fetching"
    /\ mapInit' = "failed"
    /\ UNCHANGED <<now, CACHE, geocodeCache, env, calls, seq, fnIn, fnOut,
                   messages, processedIds, dispatched, handled>>

\* The page after mounting: the chat shows the welcome message and the
\* map's initialisation has issued its style request.
InitChat ==
    /\ now = 0
    /\ CACHE = <<>>
    /\ geocodeCache = <<>>
    /\ env = [FOURSQUARE_API_KEY |-> TRUE, TRIPADVISOR_API_KEY |-> TRUE]
    /\ calls = <<>>
    /\ seq = 0
    /\ NoFunction
    /\ messages = <<WelcomeMessage>>
    /\ processedIds = {}
    /\ dispatched = <<>>
    /\ mapInit = "fetching"
    /\ handled = <<>>

NextChat ==
    \/ SendMessage
    \/ ToolCallStarts
    \/ ToolCallEnds
    \/ TextDelta
    \/ StyleLoaded
    \/ StyleFailed

SpecChat == InitChat /\ [][NextChat]_vars

\* The events dispatched for tool call id.
EventsFor(id) == SelectSeq(dispatched, LAMBDA e : e.callId = id)

SuccessPart(part) ==
    /\ part.state = <<"output-available">>
    /\ part.output # <<>>
    /\ part.output[1].ok
    /\ part.output[1].data.type = "FeatureCollection"

\* C34: each tool call whose output is a success carrying a
\* FeatureCollection has been dispatched to the window exactly once, with
\* the collection as the event's detail, however often the message list was
\* processed again since; a call with no output or a failure output has
\* never been dispatched.
C34_DispatchedOnce ==
    \A pos \in ToolPositions(messages) :
       LET m    == messages[pos[1]]
           part == m.parts[pos[2]]
           sent == EventsFor(CallIdOf(m, part))
       IN  IF SuccessPart(part)
           THEN /\ Len(sent) = 1
                /\ sent[1].detail = part.output[1].data
           ELSE sent = <<>>

\* A success was dispatched, a failure was not, and the list has been
\* processed again after both.
C34_Witness ==
    /\ \E pos \in ToolPositions(messages) :
          /\ SuccessPart(messages[pos[1]].parts[pos[2]])
          /\ pos[2] < Len(messages[pos[1]].parts) - 1
    /\ \E pos \in ToolPositions(messages) :
          /\ messages[pos[1]].parts[pos[2]].output # <<>>
          /\ ~messages[pos[1]].parts[pos[2]].output[1].ok
    /\ Len(dispatched) = 1

\* The chat page with the style request of the map answered sooner or
\* later, one way or the other; the user and the model are free to act or
\* not.
LiveChat ==
    /\ InitChat
    /\ [][NextChat]_vars
    /\ WF_vars(StyleLoaded \/ StyleFailed)

CallIds == {<<"call", n>> : n \in 1..MaxToolCalls}

\* C40: whatever the order of the map's initialisation steps and the
\* arrival of tool results, every collection dispatched to the window is
\* eventually handled by a listener of the map.
C40_NoResultLost ==
    \A id \in CallIds :
       (EventsFor(id) # <<>>) ~> (\E h \in DOMAIN handled : handled[h].callId = id)

====
